---- MODULE Spec2Model ----
(***************************************************************************)
(* Reduced-data discovery of neutronote (services/data.py): the walk over  *)
(* <SNAP_DATA_ROOT>/<ipts>/shared/SNAPRed/<state>/<mode>/<run>/<timestamp>/ *)
(* and the metadata read from each reduced file.                           *)
(*                                                                         *)
(* A file name is a sequence of one-character strings, so that the regular *)
(* expressions, int(), the format strings and the glob of the code are     *)
(* computed character by character.  A path is a sequence of names,        *)
(* relative to SNAP_DATA_ROOT.                                             *)
(***************************************************************************)
EXTENDS Integers, Sequences, FiniteSets, TLC

VARIABLES
    fs,         \* the directory tree: [dirs: set of paths, files: set of paths]
    has_h5py,   \* HAS_H5PY: whether the optional h5py import succeeded
    h5data,     \* what each regular file holds when opened as an HDF5 container
    pc,         \* position of the call in flight: idle, probed, returned, raised
    call,       \* the function called and its arguments
    ret,        \* the value returned (a Python list, as a sequence)
    exc,        \* the exception raised, "" when none
    entries,    \* the Entry table: rows in order of insertion, id = position
    config,     \* the NotebookConfig table: rows in order of insertion
    now,        \* what datetime.now(timezone.utc) reads
    _instance,          \* KernelManager._instance: PyNone or the object created
    _lock,              \* KernelManager._lock: the thread holding it, 0 when free
    _kernel_manager,    \* the module global of services/kernel.py
    _initialized,       \* the attribute of the instance: Unset until __new__ sets it
    _process,           \* self._process: PyNone or the pid of a started subprocess
    _state,             \* self._state
    _executions_count,  \* self._executions_count
    _exec_lock,         \* self._exec_lock: the thread holding it, 0 when free
    procs,      \* the kernel subprocesses started, by pid: running, stdin, stdout
    threads,    \* each thread of the server: the call it is in and its locals
    answered,   \* history: executes answered since the last start's reset
    init_runs   \* history: how many times the body of __init__ was entered

kernel_vars ==
    <<_instance, _lock, _kernel_manager, _initialized, _process, _state,
      _executions_count, _exec_lock, procs, threads, answered, init_runs>>

vars ==
    <<fs, has_h5py, h5data, pc, call, ret, exc, entries, config, now,
      kernel_vars>>

\* None where the variable otherwise holds a pid, and a lock nobody holds
NoProcess == 0
Free == 0

\* services/kernel.py before anything constructs the manager: the class
\* attributes of lines 100-101 and the module global of line 531
NoKernel ==
    /\ _instance = 0 /\ _lock = Free /\ _kernel_manager = 0
    /\ _initialized = "unset" /\ _process = NoProcess /\ _state = "unset"
    /\ _executions_count = 0 /\ _exec_lock = Free
    /\ procs = <<>> /\ threads = <<>> /\ answered = 0 /\ init_runs = 0

----------------------------------------------------------------------------
(* Characters.  The characters the model uses, in code point order, so that *)
(* comparing positions in Ascii is comparing code points, which is how      *)
(* Python compares and sorts str.                                           *)

Ascii ==
    <<"\n", " ", "+", "-", ".",
      "0", "1", "2", "3", "4", "5", "6", "7", "8", "9", ":",
      "A", "B", "C", "D", "E", "F", "G", "H", "I", "J", "K", "L", "M",
      "N", "O", "P", "Q", "R", "S", "T", "U", "V", "W", "X", "Y", "Z",
      "_",
      "a", "b", "c", "d", "e", "f", "g", "h", "i", "j", "k", "l", "m",
      "n", "o", "p", "q", "r", "s", "t", "u", "v", "w", "x", "y", "z">>

Chars == {Ascii[i] : i \in 1..Len(Ascii)}

Ord == [c \in Chars |-> CHOOSE i \in 1..Len(Ascii) : Ascii[i] = c]

Digits == {"0", "1", "2", "3", "4", "5", "6", "7", "8", "9"}

\* [a-f0-9] under re.IGNORECASE
HexChars == Digits \cup {"a", "b", "c", "d", "e", "f"} \cup {"A", "B", "C", "D", "E", "F"}

\* the whitespace int() strips, among the characters of the model
Whitespace == {" ", "\n"}

Min(a, b) == IF a <= b THEN a ELSE b

StartsWith(s, p) == Len(s) >= Len(p) /\ SubSeq(s, 1, Len(p)) = p

EndsWith(s, p) == Len(s) >= Len(p) /\ SubSeq(s, Len(s) - Len(p) + 1, Len(s)) = p

\* a < b for two str, as Python compares them: by the first differing code
\* point, a proper prefix being smaller
StrLess(a, b) ==
    LET n == Min(Len(a), Len(b))
        same(k) == \A i \in 1..k : a[i] = b[i]
    IN  \/ same(n) /\ Len(a) < Len(b)
        \/ \E k \in 1..n : same(k - 1) /\ Ord[a[k]] < Ord[b[k]]

----------------------------------------------------------------------------
(* Python's sorted() and list.sort(): stable.  key[i] is the str key of     *)
(* s[i].                                                                    *)

\* the element at index i goes after the smaller ones and after the equal
\* ones that precede it
Sorted(s, key) ==
    LET n == Len(s)
        before(j, i) == StrLess(key[j], key[i]) \/ (~StrLess(key[i], key[j]) /\ j < i)
        pos(i) == 1 + Cardinality({j \in 1..n : before(j, i)})
    IN  [k \in 1..n |-> s[CHOOSE i \in 1..n : pos(i) = k]]

\* sort(reverse=True): descending, equal keys keep their original order
SortedReverse(s, key) ==
    LET n == Len(s)
        before(j, i) == StrLess(key[i], key[j]) \/ (~StrLess(key[j], key[i]) /\ j < i)
        pos(i) == 1 + Cardinality({j \in 1..n : before(j, i)})
    IN  [k \in 1..n |-> s[CHOOSE i \in 1..n : pos(i) = k]]

\* sorted() of a list of str
SortedStrings(s) == Sorted(s, s)

\* the elements of a set as a sequence ordered by the ranking rank
RECURSIVE SeqByRank(_, _)
SeqByRank(S, rank) ==
    IF S = {} THEN <<>>
    ELSE LET x == CHOOSE y \in S : \A z \in S : rank[y] <= rank[z]
         IN  <<x>> \o SeqByRank(S \ {x}, rank)

\* every ranking (bijection onto 1..n) of a finite set
Rankings(S) ==
    {r \in [S -> 1..Cardinality(S)] : \A x, y \in S : x # y => r[x] # r[y]}

----------------------------------------------------------------------------
(* The parsers and formatters of discover_state_ids and                     *)
(* discover_reduced_runs.                                                   *)

\* re.compile(r"^[a-f0-9]{16}$", re.IGNORECASE).match(name): sixteen hex
\* characters, then the end of the string or a newline that ends the string
StateIdLen == 16

state_pattern_match(name) ==
    /\ Len(name) >= StateIdLen
    /\ \A i \in 1..StateIdLen : name[i] \in HexChars
    /\ \/ Len(name) = StateIdLen
       \/ Len(name) = StateIdLen + 1 /\ name[StateIdLen + 1] = "\n"

\* re.compile(r"^\d{4}-\d{2}-\d{2}T\d{6}$").match(name)
TimestampLen == 17

timestamp_pattern_match(name) ==
    /\ Len(name) >= TimestampLen
    /\ \A i \in 1..TimestampLen :
         IF i \in {5, 8} THEN name[i] = "-"
         ELSE IF i = 11 THEN name[i] = "T"
         ELSE name[i] \in Digits
    /\ \/ Len(name) = TimestampLen
       \/ Len(name) = TimestampLen + 1 /\ name[TimestampLen + 1] = "\n"

\* str.strip() as int() applies it
Strip(s) ==
    LET keep == {i \in 1..Len(s) : s[i] \notin Whitespace}
    IN  IF keep = {} THEN <<>>
        ELSE SubSeq(s, CHOOSE i \in keep : \A j \in keep : i <= j,
                       CHOOSE i \in keep : \A j \in keep : j <= i)

RECURSIVE DecimalValue(_)
DecimalValue(ds) ==
    IF ds = <<>> THEN 0
    ELSE 10 * DecimalValue(SubSeq(ds, 1, Len(ds) - 1))
         + (Ord[ds[Len(ds)]] - Ord["0"])

\* int(name): surrounding whitespace, an optional sign, then decimal digits
\* with single underscores allowed between digits.  ok = FALSE is ValueError.
int(name) ==
    LET s    == Strip(name)
        sign == IF s # <<>> /\ s[1] \in {"+", "-"} THEN s[1] ELSE ""
        body == IF sign = "" THEN s ELSE Tail(s)
        n    == Len(body)
        wellformed ==
            /\ n >= 1
            /\ \A i \in 1..n : body[i] \in Digits \cup {"_"}
            /\ body[1] \in Digits /\ body[n] \in Digits
            /\ \A i \in 1..(n - 1) : ~(body[i] = "_" /\ body[i + 1] = "_")
        digits == SelectSeq(body, LAMBDA c : c \in Digits)
    IN  IF wellformed
        THEN [ok |-> TRUE,
              val |-> IF sign = "-" THEN 0 - DecimalValue(digits)
                      ELSE DecimalValue(digits)]
        ELSE [ok |-> FALSE, val |-> 0]

RECURSIVE DecimalDigits(_)
DecimalDigits(n) ==
    IF n < 10 THEN <<Ascii[Ord["0"] + n]>>
    ELSE DecimalDigits(n \div 10) \o <<Ascii[Ord["0"] + (n % 10)]>>

RECURSIVE ZeroPad(_, _)
ZeroPad(ds, width) == IF Len(ds) >= width THEN ds ELSE ZeroPad(<<"0">> \o ds, width)

\* f"{n:06d}": the sign counts in the width of six
PadWidth == 6

Format06d(n) ==
    IF n < 0 THEN <<"-">> \o ZeroPad(DecimalDigits(0 - n), PadWidth - 1)
    ELSE ZeroPad(DecimalDigits(n), PadWidth)

----------------------------------------------------------------------------
(* The names of the tree layout (module docstring, lines 7-12).             *)

IPTS ==
    <<"I", "P", "T", "S", "-", "1">>
shared ==
    <<"s", "h", "a", "r", "e", "d">>
SNAPRed ==
    <<"S", "N", "A", "P", "R", "e", "d">>
lite ==
    <<"l", "i", "t", "e">>
native ==
    <<"n", "a", "t", "i", "v", "e">>
ReducedPrefix ==
    <<"r", "e", "d", "u", "c", "e", "d", "_">>
ReducedSuffix ==
    <<".", "n", "x", "s">>
PixelmaskPrefix ==
    <<"p", "i", "x", "e", "l", "m", "a", "s", "k", "_">>
PixelmaskSuffix ==
    <<".", "h", "5">>
ReductionRecord ==
    <<"R", "e", "d", "u", "c", "t", "i", "o", "n", "R", "e", "c", "o", "r", "d", ".", "j", "s", "o", "n">>

\* f"reduced_{run_number:06d}_{timestamp}.nxs"
reduced_pattern(run_number, timestamp) ==
    ReducedPrefix \o Format06d(run_number) \o <<"_">> \o timestamp \o ReducedSuffix

\* f"pixelmask_{run_number:06d}_{timestamp}.h5"
pixelmask_pattern(run_number, timestamp) ==
    PixelmaskPrefix \o Format06d(run_number) \o <<"_">> \o timestamp \o PixelmaskSuffix

\* the glob "reduced_*.nxs" on one name (* matches any run of characters,
\* the empty one included; the match is case-sensitive)
glob_match(name) ==
    /\ Len(name) >= Len(ReducedPrefix) + Len(ReducedSuffix)
    /\ StartsWith(name, ReducedPrefix)
    /\ EndsWith(name, ReducedSuffix)

----------------------------------------------------------------------------
(* The filesystem as pathlib sees it.                                       *)

Exists(p) == p \in fs.dirs \cup fs.files

IsDir(p) == p \in fs.dirs

Name(p) == p[Len(p)]

Parent(p) == SubSeq(p, 1, Len(p) - 1)

IsUnder(q, p) == Len(q) > Len(p) /\ SubSeq(q, 1, Len(p)) = p

\* the entries Path.iterdir() yields, in no particular order
Entries(p) == {q \in fs.dirs \cup fs.files : Len(q) = Len(p) + 1 /\ Parent(q) = p}

EntryNames(p) == {Name(q) : q \in Entries(p)}

\* the exception Path.iterdir() raises on p, "" when it lists p
IterDirError(p) ==
    IF ~Exists(p) THEN "FileNotFoundError"
    ELSE IF ~IsDir(p) THEN "NotADirectoryError"
    ELSE ""

\* SNAP_DATA_ROOT / ipts / "shared" / "SNAPRed"
get_snapred_root(ipts) == <<ipts, shared, SNAPRed>>

Returned(v) == [exc |-> "", val |-> v]

Raised(e) == [exc |-> e, val |-> <<>>]

RECURSIVE ConcatAll(_)
ConcatAll(ss) == IF ss = <<>> THEN <<>> ELSE Head(ss) \o ConcatAll(Tail(ss))

\* a ranking of the names S: ascending by name, or descending
NameRank(S, descending) ==
    [n \in S |->
        1 + Cardinality({m \in S : IF descending THEN StrLess(n, m) ELSE StrLess(m, n)})]

----------------------------------------------------------------------------
(* Python values, as far as the metadata code tells them apart.             *)

PyNone == [t |-> "None"]

\* text is [lit |-> characters], or [str_of |-> x] for str(x) of a non-string
PyStr(text) == [t |-> "str", v |-> text]

PyFloat(x) == [t |-> "float", v |-> x]

PyInt(n) == [t |-> "int", v |-> n]

PyBytes(chars) == [t |-> "bytes", v |-> chars]

Lit(chars) == [lit |-> chars]

StrOf(x) == [str_of |-> x]

EmptyStr == PyStr(Lit(<<>>))

\* bool(x) is False
Falsy(x) ==
    \/ x.t = "None"
    \/ x.t = "str" /\ x.v = Lit(<<>>)
    \/ x.t = "bytes" /\ x.v = <<>>
    \/ x.t \in {"float", "int"} /\ x.v = 0

\* x or d
Or(x, d) == IF Falsy(x) THEN d ELSE x

\* float(x); ok = FALSE is ValueError.  Of the text forms float() accepts,
\* those of int() are modelled (no fraction, exponent, inf or nan).
float(x) ==
    IF x.t \in {"float", "int"} THEN [ok |-> TRUE, val |-> PyFloat(x.v)]
    ELSE IF x.t = "bytes" /\ int(x.v).ok
         THEN [ok |-> TRUE, val |-> PyFloat(int(x.v).val)]
    ELSE IF x.t = "str" /\ "lit" \in DOMAIN x.v /\ int(x.v.lit).ok
         THEN [ok |-> TRUE, val |-> PyFloat(int(x.v.lit).val)]
    ELSE [ok |-> FALSE, val |-> PyNone]

----------------------------------------------------------------------------
(* What ds[()] gives for an HDF5 dataset.                                   *)
(*   absent     f.get(path) is None                                         *)
(*   bytes      a Python bytes object (variable-length string scalar)       *)
(*   np_bytes   a numpy.bytes_ scalar (fixed-length string scalar)          *)
(*   np_number  a numpy numeric scalar                                      *)
(*   ndarray    an array: shape, and its elements in row-major order, each  *)
(*              a bytes, np_bytes or np_number                              *)
(* utf8 = FALSE marks bytes that .decode("utf-8") rejects.                  *)

Absent == [k |-> "absent"]

Bytes(chars) == [k |-> "bytes", v |-> chars, utf8 |-> TRUE]

NpBytes(chars) == [k |-> "np_bytes", v |-> chars, utf8 |-> TRUE]

BadBytes(chars) == [k |-> "np_bytes", v |-> chars, utf8 |-> FALSE]

NpNumber(n) == [k |-> "np_number", v |-> n]

NdArray(shape, elems) == [k |-> "ndarray", shape |-> shape, elems |-> elems]

\* hasattr(raw, "__len__"): numpy scalars of numeric type have none
HasLen(raw) == raw.k \in {"bytes", "np_bytes", "ndarray"}

\* len(raw)
PyLen(raw) == IF raw.k = "ndarray" THEN raw.shape[1] ELSE Len(raw.v)

RECURSIVE Product(_)
Product(s) == IF s = <<>> THEN 1 ELSE Head(s) * Product(Tail(s))

\* raw[0]: the first byte of a bytes, the first element of a 1-d array, the
\* first row of a 2-d array
CodePointOf(c) ==
    IF c \in Digits THEN 48 + (Ord[c] - Ord["0"])
    ELSE IF Ord[c] >= Ord["a"] THEN 97 + (Ord[c] - Ord["a"])
    ELSE IF c = "_" THEN 95
    ELSE IF Ord[c] >= Ord["A"] THEN 65 + (Ord[c] - Ord["A"])
    ELSE CASE c = "\n" -> 10 [] c = " " -> 32 [] c = "+" -> 43
           [] c = "-" -> 45 [] c = "." -> 46 [] c = ":" -> 58

First(raw) ==
    IF raw.k \in {"bytes", "np_bytes"} THEN [k |-> "int", v |-> CodePointOf(raw.v[1])]
    ELSE IF Len(raw.shape) = 1 THEN raw.elems[1]
    ELSE NdArray(Tail(raw.shape), SubSeq(raw.elems, 1, Product(Tail(raw.shape))))

\* a value without the numpy wrapper, as v.item() or a plain return gives it
ToPython(v) ==
    IF v.k = "np_number" THEN PyFloat(v.v)
    ELSE IF v.k = "int" THEN PyInt(v.v)
    ELSE PyBytes(v.v)

\* the tail of read_log_value and read_value: decode bytes, unwrap numpy
\* values with .item().  ok = FALSE is an exception.
Unwrap(v) ==
    IF v.k \in {"bytes", "np_bytes"}
    THEN IF v.utf8 THEN [ok |-> TRUE, val |-> PyStr(Lit(v.v))]
         ELSE [ok |-> FALSE, val |-> PyNone]       \* UnicodeDecodeError
    ELSE IF v.k = "ndarray"
    THEN IF Product(v.shape) = 1                   \* ndarray.item()
         THEN [ok |-> TRUE, val |-> ToPython(v.elems[1])]
         ELSE [ok |-> FALSE, val |-> PyNone]       \* ValueError
    ELSE [ok |-> TRUE, val |-> ToPython(v)]

\* what read_log_value unwraps: the first element of a 1-d array that is not
\* empty, else the value itself (raw[0] if raw.ndim == 1 else raw)
Selected(raw) ==
    IF raw.k = "ndarray" /\ PyLen(raw) > 0 /\ Len(raw.shape) = 1 THEN First(raw) ELSE raw

\* try: ... except Exception: return default
OrDefault(u, default) == IF u.ok THEN u.val ELSE default

\* read_log_value(log_name, default) on the dataset
\* mantid_workspace_1/logs/<log_name>/value
read_log_value(f, log_name, default) ==
    IF f[log_name].k = "absent" THEN default
    ELSE IF f[log_name].k = "bytes" /\ PyLen(f[log_name]) > 0
    THEN default                                   \* bytes has no ndim
    ELSE OrDefault(Unwrap(Selected(f[log_name])), default)

\* the value read_title takes from the title dataset: val[0] when it has a
\* length and is not empty
TitleValue(ds) == IF HasLen(ds) /\ PyLen(ds) > 0 THEN First(ds) ELSE ds

\* the title dataset is missing, or reading it raised
TitleFallsBack(ds) ==
    \/ ds.k = "absent"
    \/ TitleValue(ds).k \in {"bytes", "np_bytes"} /\ ~TitleValue(ds).utf8

\* read_title(): the dataset mantid_workspace_1/title, else the run_title log
read_title(f) ==
    IF TitleFallsBack(f["title"]) THEN read_log_value(f, "run_title", EmptyStr)
    ELSE IF TitleValue(f["title"]).k \in {"bytes", "np_bytes"}
    THEN PyStr(Lit(TitleValue(f["title"]).v))
    ELSE PyStr(StrOf(TitleValue(f["title"])))

\* the container a file holds; a file that is no HDF5 file cannot be opened
Unopenable == [k |-> "unopenable"]

DefaultMetadata ==
    [title |-> EmptyStr, duration |-> PyFloat(0), start_time |-> EmptyStr]

\* lines 205-211: the dict, or the defaults when float() raised ValueError
MetadataDict(f, duration) ==
    IF ~duration.ok THEN DefaultMetadata
    ELSE [title      |-> Or(read_title(f), EmptyStr),
          duration   |-> duration.val,
          start_time |-> Or(read_log_value(f, "start_time", EmptyStr), EmptyStr)]

\* lines 168-211 on what the file holds; h5py.File raises OSError on a file
\* that is no container
ReadContainer(f) ==
    IF "k" \in DOMAIN f THEN DefaultMetadata
    ELSE MetadataDict(f, float(Or(read_log_value(f, "duration", PyFloat(0)), PyFloat(0))))

ContainerOf(file) == IF file \in DOMAIN h5data THEN h5data[file] ELSE Unopenable

\* get_metadata_from_reduced_file without the outer except clause of lines
\* 210-211: the OSError of h5py.File leaves the function
GetMetadataUncaught(reduced_file) ==
    IF ~has_h5py \/ ~Exists(reduced_file) THEN Returned(DefaultMetadata)
    ELSE IF ContainerOf(reduced_file) = Unopenable THEN Raised("OSError")
    ELSE Returned(ReadContainer(ContainerOf(reduced_file)))

\* get_metadata_from_reduced_file(reduced_file): [exc, val], val the dict
get_metadata_from_reduced_file(reduced_file) ==
    IF ~has_h5py \/ ~Exists(reduced_file) THEN Returned(DefaultMetadata)
    ELSE Returned(ReadContainer(ContainerOf(reduced_file)))

\* dict.get(key)
DictGet(d, key) == IF key \in DOMAIN d THEN d[key] ELSE PyNone

----------------------------------------------------------------------------
(* discover_state_ids                                                       *)

\* lines 301-309: list the reduction root, keep the directories whose name
\* the pattern matches, sort.  rank is the order iterdir() yields the names.
StateIdsListing(ipts, rank) ==
    IF IterDirError(get_snapred_root(ipts)) # ""
    THEN Raised(IterDirError(get_snapred_root(ipts)))
    ELSE Returned(SortedStrings(
            SelectSeq(SeqByRank(EntryNames(get_snapred_root(ipts)), rank),
                      LAMBDA n : /\ IsDir(get_snapred_root(ipts) \o <<n>>)
                                 /\ state_pattern_match(n))))

discover_state_ids(ipts, rank) ==
    IF ~Exists(get_snapred_root(ipts)) THEN Returned(<<>>)
    ELSE StateIdsListing(ipts, rank)

----------------------------------------------------------------------------
(* discover_reduced_runs                                                    *)

\* Optional[Path] = None
NoPath == <<>>

\* the outcomes of a loop body run over a sequence: the first exception, or
\* the records appended, in order
Collect(outcomes) ==
    LET failed == {i \in 1..Len(outcomes) : outcomes[i].exc # ""}
    IN  IF failed # {}
        THEN Raised(outcomes[CHOOSE i \in failed : \A j \in failed : i <= j].exc)
        ELSE Returned(ConcatAll([i \in 1..Len(outcomes) |-> outcomes[i].val]))

\* list(ts_dir.glob("reduced_*.nxs")), as a set
Globbed(ts_dir) == {q \in Entries(ts_dir) : glob_match(Name(q))}

\* a ReducedRun whose record_file is set without the exists() of line 394
ReducedRunUnprobed(state_id, run_number, ts_dir, reduced_file, metadata) ==
    [run_number     |-> run_number,
     state_id       |-> state_id,
     timestamp      |-> Name(ts_dir),
     reduced_file   |-> reduced_file,
     record_file    |-> ts_dir \o <<ReductionRecord>>,
     pixelmask_file |-> IF Exists(ts_dir \o <<pixelmask_pattern(run_number, Name(ts_dir))>>)
                        THEN ts_dir \o <<pixelmask_pattern(run_number, Name(ts_dir))>>
                        ELSE NoPath,
     title          |-> DictGet(metadata, "title"),
     duration       |-> DictGet(metadata, "duration"),
     start_time     |-> DictGet(metadata, "start_time")]

\* lines 381-399: the ReducedRun of one timestamp folder
ReducedRun(state_id, run_number, ts_dir, reduced_file, metadata) ==
    [run_number     |-> run_number,
     state_id       |-> state_id,
     timestamp      |-> Name(ts_dir),
     reduced_file   |-> reduced_file,
     record_file    |-> IF Exists(ts_dir \o <<ReductionRecord>>)
                        THEN ts_dir \o <<ReductionRecord>> ELSE NoPath,
     pixelmask_file |-> IF Exists(ts_dir \o <<pixelmask_pattern(run_number, Name(ts_dir))>>)
                        THEN ts_dir \o <<pixelmask_pattern(run_number, Name(ts_dir))>>
                        ELSE NoPath,
     title          |-> DictGet(metadata, "title"),
     duration       |-> DictGet(metadata, "duration"),
     start_time     |-> DictGet(metadata, "start_time")]

\* lines 386-403: read the metadata, build the record
Enriched(state_id, run_number, ts_dir, reduced_file, metadata) ==
    IF metadata.exc # "" THEN Raised(metadata.exc)
    ELSE Returned(<<ReducedRun(state_id, run_number, ts_dir, reduced_file, metadata.val)>>)

\* the choice of lines 370-379 turned round: an entry the glob matches, and
\* the file of the exact name only when the glob matches nothing
ReducedFileGlobFirst(ts_dir, exact, pick) ==
    IF ts_dir \in DOMAIN pick THEN pick[ts_dir]
    ELSE IF Globbed(ts_dir) # {} THEN CHOOSE q \in Globbed(ts_dir) : TRUE
    ELSE exact

\* lines 370-379: the file of the exact name, else reduced_files[0], which is
\* pick[ts_dir] where the glob matches several entries
ReducedFile(ts_dir, exact, pick) ==
    IF Exists(exact) THEN exact
    ELSE IF ts_dir \in DOMAIN pick THEN pick[ts_dir]
    ELSE CHOOSE q \in Globbed(ts_dir) : TRUE

WithReducedFile(state_id, run_number, ts_dir, reduced_file) ==
    Enriched(state_id, run_number, ts_dir, reduced_file,
             get_metadata_from_reduced_file(reduced_file))

\* lines 367-403 for one timestamp folder: no record, or the one ReducedRun
TimestampRecord(state_id, run_number, ts_dir, exact, pick) ==
    IF ~Exists(exact) /\ Globbed(ts_dir) = {} THEN Returned(<<>>)
    ELSE WithReducedFile(state_id, run_number, ts_dir, ReducedFile(ts_dir, exact, pick))

\* lines 361-403 for one entry of a run folder
TimestampEntry(state_id, run_number, ts_dir, pick) ==
    IF ~IsDir(ts_dir) \/ ~timestamp_pattern_match(Name(ts_dir)) THEN Returned(<<>>)
    ELSE TimestampRecord(state_id, run_number, ts_dir,
                         ts_dir \o <<reduced_pattern(run_number, Name(ts_dir))>>, pick)

\* lines 361-403: the timestamp folders of one run folder, as listed
RunFolderRecords(state_id, run_number, run_dir, listed, pick) ==
    Collect([i \in 1..Len(listed) |->
                TimestampEntry(state_id, run_number, run_dir \o <<listed[i]>>, pick)])

\* lines 355-403 once the entry is known to be a directory
RunFolder(state_id, run_number, run_dir, order) ==
    IF ~run_number.ok THEN Returned(<<>>)                  \* ValueError: continue
    ELSE RunFolderRecords(state_id, run_number.val, run_dir,
            SeqByRank(EntryNames(run_dir),
                      NameRank(EntryNames(run_dir), order.ts_descending)),
            order.pick)

\* lines 351-403 for one entry of the state root
RunDirRecords(state_id, run_dir, order) ==
    IF ~IsDir(run_dir) THEN Returned(<<>>)
    ELSE RunFolder(state_id, int(Name(run_dir)), run_dir, order)

\* key=lambda r: r.timestamp
Timestamps(reductions) == [i \in 1..Len(reductions) |-> reductions[i].timestamp]

\* lines 405-418: the groups in ascending run number; of each the latest, or
\* all of it by ascending timestamp
ProcessResults(found, latest_only) ==
    LET numbers == {found[i].run_number : i \in 1..Len(found)}
        keys    == SeqByRank(numbers, [n \in numbers |-> n])
        group(n) ==
            LET reductions == SelectSeq(found, LAMBDA r : r.run_number = n)
            IN  IF latest_only /\ Len(reductions) > 1
                THEN <<SortedReverse(reductions, Timestamps(reductions))[1]>>
                ELSE Sorted(reductions, Timestamps(reductions))
    IN  ConcatAll([i \in 1..Len(keys) |-> group(keys[i])])

\* lines 405-418 after the walk, unless the walk raised
Processed(found, latest_only) ==
    IF found.exc # "" THEN found
    ELSE Returned(ProcessResults(found.val, latest_only))

\* lines 350-403: the entries of the state root, as listed
WalkRunDirs(state_root, state_id, listed, order) ==
    Collect([i \in 1..Len(listed) |->
                RunDirRecords(state_id, state_root \o <<listed[i]>>, order)])

\* lines 344-418: the walk below a state root that was found to exist
ReducedRunsWalk(state_root, state_id, latest_only, order) ==
    IF IterDirError(state_root) # "" THEN Raised(IterDirError(state_root))
    ELSE Processed(WalkRunDirs(state_root, state_id,
                               SeqByRank(EntryNames(state_root), order.runs), order),
                   latest_only)

StateRoot(ipts, state_id, is_lite) ==
    get_snapred_root(ipts) \o <<state_id, IF is_lite THEN lite ELSE native>>

discover_reduced_runs(ipts, state_id, is_lite, latest_only, order) ==
    IF ~Exists(StateRoot(ipts, state_id, is_lite)) THEN Returned(<<>>)
    ELSE ReducedRunsWalk(StateRoot(ipts, state_id, is_lite), state_id, latest_only, order)

----------------------------------------------------------------------------
(* discover_all_reduced_data                                                *)

\* lines 441-443: the StateInfo of one state, none when it has no runs
StateInfo(state_id, runs) ==
    IF runs.exc # "" THEN runs
    ELSE IF runs.val # <<>>
    THEN Returned(<<[state_id |-> state_id, reduced_runs |-> runs.val]>>)
    ELSE Returned(<<>>)

\* lines 438-445
AllStates(ipts, is_lite, state_ids, order) ==
    IF state_ids.exc # "" THEN state_ids
    ELSE Collect([i \in 1..Len(state_ids.val) |->
                     StateInfo(state_ids.val[i],
                               discover_reduced_runs(ipts, state_ids.val[i], is_lite,
                                                     TRUE, order))])

discover_all_reduced_data(ipts, is_lite, rank, order) ==
    AllStates(ipts, is_lite, discover_state_ids(ipts, rank), order)

----------------------------------------------------------------------------
(* The orders a directory listing can come in.                              *)

\* every choice of one path per member of D, the path taken from M[d]
RECURSIVE Choices(_, _)
Choices(D, M) ==
    IF D = {} THEN {[d \in {} |-> d]}
    ELSE LET d == CHOOSE x \in D : TRUE
         IN  {[x \in DOMAIN f \cup {d} |-> IF x = d THEN m ELSE f[x]] :
                 f \in Choices(D \ {d}, M), m \in M[d]}

\* the timestamp folders, two levels below the state roots in roots, in which
\* the glob matches several entries
AmbiguousGlobs(roots) ==
    {d \in fs.dirs : /\ \E r \in roots : Len(d) = Len(r) + 2 /\ IsUnder(d, r)
                     /\ Cardinality(Globbed(d)) > 1}

\* the listing orders that decide the result of a walk below the state roots
WalkOrders(roots) ==
    LET names == UNION {EntryNames(r) : r \in roots}
        D     == AmbiguousGlobs(roots)
    IN  {[runs |-> r, ts_descending |-> t, pick |-> p] :
            r \in Rankings(names), t \in BOOLEAN,
            p \in Choices(D, [d \in D |-> Globbed(d)])}

----------------------------------------------------------------------------
(* Names the trees are built from.                                         *)

StLower ==
    <<"0", "1", "2", "3", "4", "5", "6", "7", "8", "9", "a", "b", "c", "d", "e", "f">>
StUpper ==
    <<"A", "B", "C", "D", "E", "F", "0", "1", "2", "3", "4", "5", "6", "7", "8", "9">>
StMixed ==
    <<"a", "B", "c", "D", "e", "F", "0", "1", "2", "3", "4", "5", "6", "7", "8", "9">>
StShort ==
    <<"a", "b", "c">>
StLong ==
    <<"a", "b", "c", "d", "e", "f", "a", "b", "c", "d", "e", "f", "a", "b", "c", "d", "1">>
StNonHex ==
    <<"0", "1", "2", "3", "4", "5", "6", "7", "8", "9", "a", "b", "c", "d", "e", "g">>
StNewline ==
    <<"0", "1", "2", "3", "4", "5", "6", "7", "8", "9", "a", "b", "c", "d", "e", "f", "\n">>
Run7 ==
    <<"7">>
Run007 ==
    <<"0", "0", "7">>
Run12 ==
    <<"1", "2">>
RunNeg5 ==
    <<"-", "5">>
RunAbc ==
    <<"a", "b", "c">>
RunPlus7 ==
    <<"+", "7">>
RunUnder ==
    <<"1", "_", "0">>
RunSpace7 ==
    <<" ", "7">>
Ts1 ==
    <<"2", "0", "2", "5", "-", "0", "5", "-", "0", "8", "T", "1", "6", "2", "1", "4", "7">>
Ts2 ==
    <<"2", "0", "2", "5", "-", "0", "5", "-", "0", "9", "T", "0", "9", "0", "0", "0", "0">>
Ts3 ==
    <<"2", "0", "2", "5", "-", "0", "5", "-", "1", "0", "T", "1", "2", "0", "0", "0", "0">>
Ts4 ==
    <<"2", "0", "2", "5", "-", "0", "5", "-", "1", "1", "T", "0", "0", "0", "0", "0", "0">>
TsDateOnly ==
    <<"2", "0", "2", "5", "-", "0", "5", "-", "0", "8">>
TsLowerT ==
    <<"2", "0", "2", "5", "-", "0", "5", "-", "0", "8", "t", "1", "6", "2", "1", "4", "7">>
TsNewline ==
    <<"2", "0", "2", "5", "-", "0", "5", "-", "0", "8", "T", "1", "6", "2", "1", "4", "7", "\n">>
FileCustom ==
    <<"r", "e", "d", "u", "c", "e", "d", "_", "c", "u", "s", "t", "o", "m", "_", "2", "0", "2", "5", "0", "1", "0", "1", ".", "n", "x", "s">>
FileOther ==
    <<"r", "e", "d", "u", "c", "e", "d", "_", "x", ".", "n", "x", "s">>
FileUpper ==
    <<"R", "e", "d", "u", "c", "e", "d", "_", "a", ".", "n", "x", "s">>
FileDir ==
    <<"r", "e", "d", "u", "c", "e", "d", "_", "d", "i", "r", ".", "n", "x", "s">>
FileNotes ==
    <<"n", "o", "t", "e", "s", ".", "t", "x", "t">>
TitleText ==
    <<"V", "a", "n", "a", "d", "i", "u", "m">>
StartText ==
    <<"2", "0", "2", "5", "-", "0", "5", "-", "0", "8", "T", "1", "6", ":", "2", "1", ":", "4", "7">>
DurationText ==
    <<"4", "5">>
NotANumber ==
    <<"a", "b", "c">>

----------------------------------------------------------------------------
(* The trees and containers the calls are checked on.                       *)

MaxStateEntries == 3    \* entries of the reduction root
MaxTimestamps == 2      \* timestamp folders of one run folder

Tree(dirs, files) == [dirs |-> dirs, files |-> files]

Below(p, names) == {p \o <<n>> : n \in names}

SnapredRoot == get_snapred_root(IPTS)

BaseDirs == {<<IPTS>>, <<IPTS, shared>>, SnapredRoot}

LiteRoot == StateRoot(IPTS, StLower, TRUE)

NativeRoot == StateRoot(IPTS, StLower, FALSE)

LiteDirs == BaseDirs \cup {SnapredRoot \o <<StLower>>, LiteRoot}

\* the experiment root, "shared" or the reduction root missing, or a regular
\* file where the reduction root or "shared" should be
TopLevelTrees ==
    {Tree({}, {}), Tree({<<IPTS>>}, {}), Tree({<<IPTS>>, <<IPTS, shared>>}, {}),
     Tree({<<IPTS>>}, {<<IPTS, shared>>}),
     Tree({<<IPTS>>, <<IPTS, shared>>}, {SnapredRoot})}

StateNameCands == {StLower, StUpper, StMixed, StShort, StLong, StNonHex, StNewline}

\* up to MaxStateEntries entries in the reduction root, each a directory or
\* a regular file
StateLevelTrees ==
    {Tree(BaseDirs \cup Below(SnapredRoot, c[1]), Below(SnapredRoot, c[2])) :
        c \in {c \in (SUBSET StateNameCands) \X (SUBSET StateNameCands) :
                  /\ c[1] \cap c[2] = {}
                  /\ Cardinality(c[1] \cup c[2]) <= MaxStateEntries}}

\* the lite and the native folder of one state: missing, a file, a directory
ModeLevelTrees ==
    LET state == SnapredRoot \o <<StLower>>
        modes == {LiteRoot, NativeRoot}
    IN  {Tree(BaseDirs \cup {state} \cup c[1], c[2]) :
            c \in {c \in (SUBSET modes) \X (SUBSET modes) : c[1] \cap c[2] = {}}}

RunNameCands == {Run7, Run007, Run12, RunNeg5, RunAbc, RunPlus7, RunUnder, RunSpace7}

TsNameCands == {Ts1, Ts2, TsDateOnly, TsLowerT, TsNewline}

\* one entry in the state root under any of the run names; a file, or a
\* folder with one entry under any of the timestamp names; that one a file,
\* or a folder that is empty or holds one reduced file
NameTrees ==
    LET run(rn) == LiteRoot \o <<rn>>
        ts(rn, tn) == LiteRoot \o <<rn, tn>>
        exact(rn, tn) == ts(rn, tn) \o <<reduced_pattern(int(rn).val, tn)>>
    IN  {Tree(LiteDirs, {run(rn)}) : rn \in RunNameCands}
        \cup {Tree(LiteDirs \cup {run(rn)}, {}) : rn \in RunNameCands}
        \cup {Tree(LiteDirs \cup {run(rn)}, {ts(rn, tn)}) :
                 rn \in RunNameCands, tn \in TsNameCands}
        \cup {Tree(LiteDirs \cup {run(rn), ts(rn, tn)}, {}) :
                 rn \in RunNameCands, tn \in TsNameCands}
        \cup {Tree(LiteDirs \cup {run(rn), ts(rn, tn)}, {exact(rn, tn)}) :
                 rn \in RunNameCands, tn \in TsNameCands}
        \cup {Tree(LiteDirs \cup {run(rn), ts(rn, tn)}, {ts(rn, tn) \o <<FileCustom>>}) :
                 rn \in RunNameCands, tn \in TsNameCands}

\* one timestamp folder holding any set of these files, and possibly a
\* directory under a name the glob matches
FileCands(run_number, timestamp) ==
    {reduced_pattern(run_number, timestamp), FileCustom, FileOther, FileUpper,
     ReductionRecord, pixelmask_pattern(run_number, timestamp),
     pixelmask_pattern(run_number + 1, timestamp)}

FileTrees ==
    LET ts_dir == LiteRoot \o <<Run7, Ts1>>
    IN  {Tree(LiteDirs \cup {LiteRoot \o <<Run7>>, ts_dir} \cup Below(ts_dir, sub),
              Below(ts_dir, names)) :
            names \in SUBSET FileCands(7, Ts1), sub \in SUBSET {FileDir}}

RunFolderCands == {Run7, Run007, Run12}

TsSeq == <<Ts1, Ts2, Ts3, Ts4>>

TsCands == {TsSeq[i] : i \in 1..Min(MaxTimestamps, Len(TsSeq))}

\* the reduced file under its exact name in every timestamp folder of tsOf
RunFolders(root, tsOf) ==
    LET folders == UNION {{<<r, t>> : t \in tsOf[r]} : r \in DOMAIN tsOf}
    IN  Tree(Below(root, DOMAIN tsOf) \cup {root \o <<x[1], x[2]>> : x \in folders},
             {root \o <<x[1], x[2], reduced_pattern(int(x[1]).val, x[2])>> : x \in folders})

\* any of the run folders 7, 007 and 12, each with any of the timestamps
GroupTrees ==
    {Tree(LiteDirs \cup RunFolders(LiteRoot, tsOf).dirs, RunFolders(LiteRoot, tsOf).files) :
        tsOf \in UNION {[present -> SUBSET TsCands] : present \in SUBSET RunFolderCands}}

\* the run folders 7 and -5, each with any of a timestamp and the same
\* timestamp followed by a newline
SuffixTrees ==
    {Tree(LiteDirs \cup RunFolders(LiteRoot, tsOf).dirs, RunFolders(LiteRoot, tsOf).files) :
        tsOf \in UNION {[present -> SUBSET {Ts1, TsNewline}] :
                           present \in SUBSET {Run7, RunNeg5}}}

\* what one entry of the reduction root can be, for discover_all_reduced_data
StateOptions(s) ==
    LET state == SnapredRoot \o <<s>>
        l == StateRoot(IPTS, s, TRUE)
        n == StateRoot(IPTS, s, FALSE)
        one == RunFolders(l, [r \in {Run7} |-> {Ts1}])
        two == RunFolders(l, [r \in {Run7, Run12} |-> IF r = Run7 THEN TsCands ELSE {Ts1}])
        nat == RunFolders(n, [r \in {Run12} |-> {Ts1}])
    IN  {Tree({}, {}), Tree({}, {state}), Tree({state}, {}), Tree({state}, {l}),
         Tree({state, l}, {}),
         Tree({state, l} \cup one.dirs, one.files),
         Tree({state, l} \cup two.dirs, two.files),
         Tree({state, l, n} \cup one.dirs \cup nat.dirs, one.files \cup nat.files)}

AllTrees ==
    {Tree(BaseDirs \cup a.dirs \cup b.dirs \cup c.dirs, a.files \cup b.files \cup c.files) :
        a \in StateOptions(StLower), b \in StateOptions(StUpper),
        c \in {Tree({}, {})} \cup {o \in StateOptions(StShort) : o.files # {}}}

StructuralTrees ==
    TopLevelTrees \cup StateLevelTrees \cup ModeLevelTrees \cup NameTrees
        \cup FileTrees \cup GroupTrees \cup SuffixTrees \cup AllTrees

IsReducedName(p) == EndsWith(Name(p), ReducedSuffix)

Vector(x) == NdArray(<<1>>, <<x>>)

\* a reduced file as the reduction workflow writes it
DefaultContainer ==
    [title      |-> Vector(NpBytes(TitleText)),
     run_title  |-> Vector(NpBytes(TitleText)),
     duration   |-> Vector(NpNumber(45)),
     start_time |-> Vector(NpBytes(StartText))]

Containers ==
    [title      : {Absent, Vector(NpBytes(TitleText)), Bytes(TitleText), BadBytes(TitleText),
                   NdArray(<<0>>, <<>>)},
     run_title  : {Absent, Vector(NpBytes(TitleText))},
     duration   : {Absent, NpNumber(45), Vector(NpNumber(45)), Vector(NpNumber(0)),
                   Vector(NpBytes(DurationText)), NpBytes(NotANumber),
                   NdArray(<<0>>, <<>>), NdArray(<<2>>, <<NpNumber(45), NpNumber(46)>>)},
     start_time : {Absent, Vector(NpBytes(StartText)), Bytes(StartText)}]

\* two runs; the reduced file of run 7 holds any of the containers
MetaTree ==
    LET t == RunFolders(LiteRoot, [r \in {Run7, Run12} |-> {Ts1}])
    IN  Tree(LiteDirs \cup t.dirs, t.files)

MetaFile == LiteRoot \o <<Run7, Ts1, reduced_pattern(7, Ts1)>>

----------------------------------------------------------------------------
(* The calls.                                                               *)

NoCall == [fn |-> "none", state_id |-> <<>>, lite |-> FALSE, latest_only |-> FALSE]

StateArgs == {StLower, StUpper}

Init ==
    /\ pc = "idle" /\ call = NoCall /\ ret = <<>> /\ exc = ""
    /\ entries = <<>> /\ config = <<>> /\ now = 0
    /\ NoKernel
    /\ \/ /\ fs \in StructuralTrees
          /\ has_h5py = TRUE
          /\ h5data = [p \in {q \in fs.files : IsReducedName(q)} |-> DefaultContainer]
       \/ /\ fs = MetaTree
          /\ has_h5py \in BOOLEAN
          /\ \E c \in Containers \cup {Unopenable} :
                h5data = [p \in {q \in fs.files : IsReducedName(q)} |->
                             IF p = MetaFile THEN c ELSE DefaultContainer]

Finish(outcome) ==
    /\ pc' = IF outcome.exc = "" THEN "returned" ELSE "raised"
    /\ ret' = outcome.val
    /\ exc' = outcome.exc

\* discover_state_ids(ipts), lines 296-299: up to the existence probe
CallDiscoverStateIds ==
    /\ pc = "idle"
    /\ call' = [NoCall EXCEPT !.fn = "discover_state_ids"]
    /\ IF Exists(SnapredRoot)
       THEN pc' = "probed" /\ UNCHANGED <<ret, exc>>
       ELSE Finish(Returned(<<>>))
    /\ UNCHANGED <<fs, has_h5py, h5data, entries, config, now, kernel_vars>>

\* discover_state_ids(ipts), lines 301-309: the listing
ListStateIds ==
    /\ pc = "probed" /\ call.fn = "discover_state_ids"
    /\ \E rank \in Rankings(EntryNames(SnapredRoot)) : Finish(StateIdsListing(IPTS, rank))
    /\ UNCHANGED <<fs, has_h5py, h5data, call, entries, config, now, kernel_vars>>

\* discover_reduced_runs entered without the exists() of lines 341-342
CallDiscoverReducedRunsUnprobed ==
    /\ pc = "idle"
    /\ \E s \in StateArgs, l \in BOOLEAN, latest \in BOOLEAN :
          call' = [fn |-> "discover_reduced_runs", state_id |-> s,
                   lite |-> l, latest_only |-> latest]
    /\ pc' = "probed"
    /\ UNCHANGED <<fs, has_h5py, h5data, ret, exc, entries, config, now, kernel_vars>>

\* discover_reduced_runs(ipts, state_id, lite, latest_only), lines 338-342
CallDiscoverReducedRuns ==
    /\ pc = "idle"
    /\ \E s \in StateArgs, l \in BOOLEAN, latest \in BOOLEAN :
          /\ call' = [fn |-> "discover_reduced_runs", state_id |-> s,
                      lite |-> l, latest_only |-> latest]
          /\ IF Exists(StateRoot(IPTS, s, l))
             THEN pc' = "probed" /\ UNCHANGED <<ret, exc>>
             ELSE Finish(Returned(<<>>))
    /\ UNCHANGED <<fs, has_h5py, h5data, entries, config, now, kernel_vars>>

\* discover_reduced_runs, lines 344-418: the walk and the grouping
WalkReducedRuns ==
    /\ pc = "probed" /\ call.fn = "discover_reduced_runs"
    /\ LET state_root == StateRoot(IPTS, call.state_id, call.lite)
       IN  \E order \in WalkOrders({state_root}) :
              Finish(ReducedRunsWalk(state_root, call.state_id, call.latest_only, order))
    /\ UNCHANGED <<fs, has_h5py, h5data, call, entries, config, now, kernel_vars>>

\* discover_all_reduced_data(ipts, lite), lines 437-445
DiscoverAllReducedData ==
    /\ pc = "idle"
    /\ \E l \in BOOLEAN :
          /\ call' = [NoCall EXCEPT !.fn = "discover_all_reduced_data", !.lite = l]
          /\ \E rank \in Rankings(EntryNames(SnapredRoot)) :
             \E order \in WalkOrders({StateRoot(IPTS, Name(d), l) : d \in Entries(SnapredRoot)}) :
                Finish(discover_all_reduced_data(IPTS, l, rank, order))
    /\ UNCHANGED <<fs, has_h5py, h5data, entries, config, now, kernel_vars>>

\* the directory a call has probed
Probed ==
    IF call.fn = "discover_state_ids" THEN SnapredRoot
    ELSE StateRoot(IPTS, call.state_id, call.lite)

\* the reduction workflow, or anyone else, removes the probed directory
\* between the call's exists() and its iterdir()
Vanish ==
    /\ pc = "probed"
    /\ Exists(Probed)
    /\ LET gone(q) == q = Probed \/ IsUnder(q, Probed)
       IN  /\ fs' = Tree({q \in fs.dirs : ~gone(q)}, {q \in fs.files : ~gone(q)})
           /\ h5data' = [p \in {q \in DOMAIN h5data : ~gone(q)} |-> h5data[p]]
    /\ UNCHANGED <<has_h5py, pc, call, ret, exc, entries, config, now, kernel_vars>>

\* the caller takes the result, or the exception propagates to it
Return ==
    /\ pc \in {"returned", "raised"}
    /\ pc' = "idle" /\ call' = NoCall /\ ret' = <<>> /\ exc' = ""
    /\ UNCHANGED <<fs, has_h5py, h5data, entries, config, now, kernel_vars>>

Next ==
    \/ CallDiscoverStateIds
    \/ ListStateIds
    \/ CallDiscoverReducedRuns
    \/ WalkReducedRuns
    \/ DiscoverAllReducedData
    \/ Vanish
    \/ Return

Spec == Init /\ [][Next]_vars

----------------------------------------------------------------------------
(* What the tree holds, stated without the walk.                            *)

ReducedRun7Ts1 ==
    <<"r", "e", "d", "u", "c", "e", "d", "_", "0", "0", "0", "0", "0", "7", "_", "2", "0", "2", "5", "-", "0", "5", "-", "0", "8", "T", "1", "6", "2", "1", "4", "7", ".", "n", "x", "s">>
PixelmaskRun7Ts1 ==
    <<"p", "i", "x", "e", "l", "m", "a", "s", "k", "_", "0", "0", "0", "0", "0", "7", "_", "2", "0", "2", "5", "-", "0", "5", "-", "0", "8", "T", "1", "6", "2", "1", "4", "7", ".", "h", "5">>

\* the state root of the call in flight
CalledRoot == StateRoot(IPTS, call.state_id, call.lite)

\* the timestamp folders the walk reaches below a state root: the folders,
\* two levels down, that the timestamp pattern takes, inside folders whose
\* name int() takes
TimestampFolders(root) ==
    {d \in fs.dirs : /\ Len(d) = Len(root) + 2 /\ IsUnder(d, root)
                     /\ IsDir(root) /\ IsDir(Parent(d))
                     /\ int(Name(Parent(d))).ok
                     /\ timestamp_pattern_match(Name(d))}

RunNumberOf(d) == int(Name(Parent(d))).val

\* the folder holds the exactly named reduced file or an entry the glob takes
HasReducedFile(d) ==
    \E q \in Entries(d) :
        \/ Name(q) = reduced_pattern(RunNumberOf(d), Name(d))
        \/ glob_match(Name(q))

\* the timestamp folders that hold a reduced file
AcceptedFolders(root) == {d \in TimestampFolders(root) : HasReducedFile(d)}

\* a run folder name: it parses as a non-negative integer
NonNegativeInteger(name) == int(name).ok /\ int(name).val >= 0

\* a timestamp folder name: YYYY-MM-DDThhmmss and nothing more
TimestampForm(name) == Len(name) = TimestampLen /\ timestamp_pattern_match(name)

\* the valid timestamped reductions below a state root
ValidFolders(root) ==
    {d \in AcceptedFolders(root) : /\ NonNegativeInteger(Name(Parent(d)))
                                   /\ TimestampForm(Name(d))}

\* the timestamp folder a record was made for
FolderOf(r) == Parent(r.reduced_file)

ReturnedFrom(fn) == pc = "returned" /\ call.fn = fn

Completed(fn) == pc \in {"returned", "raised"} /\ call.fn = fn

Indices == 1..Len(ret)

\* every record names the run number and the timestamp of its folder
RecordsMatchFolders ==
    \A i \in Indices : /\ ret[i].run_number = RunNumberOf(FolderOf(ret[i]))
                       /\ ret[i].timestamp = Name(FolderOf(ret[i]))

----------------------------------------------------------------------------
(* C1: on every tree discover_reduced_runs with latest_only = true returns  *)
(* exactly one record for every run number that has a valid timestamped     *)
(* reduction, and no other record; the record of a run number carries the   *)
(* greatest timestamp, in str order, of the valid timestamp folders of that *)
(* run number, in whichever run folders ("7", "007") they lie.              *)
C1_LatestOnlyOnePerRun ==
    (Completed("discover_reduced_runs") /\ call.latest_only) =>
        LET valid   == ValidFolders(CalledRoot)
            numbers == {RunNumberOf(d) : d \in valid}
        IN  /\ pc = "returned"
            /\ {ret[i].run_number : i \in Indices} = numbers
            /\ Len(ret) = Cardinality(numbers)
            /\ RecordsMatchFolders
            /\ \A i \in Indices :
                 /\ FolderOf(ret[i]) \in valid
                 /\ \A d \in valid :
                      RunNumberOf(d) = ret[i].run_number
                          => ~StrLess(ret[i].timestamp, Name(d))

(* C2: with latest_only = false discover_reduced_runs returns the valid     *)
(* timestamped reductions, every one exactly once, in ascending numeric     *)
(* order of run number and, within a run number, in ascending timestamp     *)
(* order.                                                                   *)
C2_AllReductionsOrdered ==
    (ReturnedFrom("discover_reduced_runs") /\ ~call.latest_only) =>
        /\ {FolderOf(ret[i]) : i \in Indices} = ValidFolders(CalledRoot)
        /\ Len(ret) = Cardinality(ValidFolders(CalledRoot))
        /\ RecordsMatchFolders
        /\ \A i, j \in Indices :
             i < j => \/ ret[i].run_number < ret[j].run_number
                      \/ /\ ret[i].run_number = ret[j].run_number
                         /\ ~StrLess(ret[j].timestamp, ret[i].timestamp)

\* exactly sixteen hexadecimal characters, either case
Hex16(name) == Len(name) = StateIdLen /\ \A i \in 1..Len(name) : name[i] \in HexChars

(* C3: discover_state_ids returns exactly the names of the immediate        *)
(* subdirectories of the reduction root that consist of exactly 16          *)
(* hexadecimal characters, in ascending str order; no name of another       *)
(* length and no regular file is returned.                                  *)
C3_StateIdsAreSixteenHex ==
    ReturnedFrom("discover_state_ids") =>
        /\ {ret[i] : i \in Indices}
              = {n \in EntryNames(SnapredRoot) : IsDir(SnapredRoot \o <<n>>) /\ Hex16(n)}
        /\ \A i, j \in Indices : i < j => StrLess(ret[i], ret[j])

(* C4: a call of discover_state_ids or discover_reduced_runs that finds the *)
(* folder it is about to list missing (the experiment root, the reduction   *)
(* root, the state folder or the mode folder does not exist) returns the    *)
(* empty list at once and raises nothing.                                   *)
C4_MissingFolderReturnsEmpty ==
    [][(/\ pc = "idle"
        /\ call'.fn \in {"discover_state_ids", "discover_reduced_runs"}
        /\ ~Exists(IF call'.fn = "discover_state_ids" THEN SnapredRoot
                   ELSE StateRoot(IPTS, call'.state_id, call'.lite)))
          => (pc' = "returned" /\ ret' = <<>> /\ exc' = "")]_vars

\* discover_reduced_runs has returned for a state whose folder exists and
\* whose mode folder does not
C4_Witness ==
    /\ ReturnedFrom("discover_reduced_runs")
    /\ IsDir(SnapredRoot \o <<call.state_id>>)
    /\ ~Exists(CalledRoot)
    /\ ret = <<>>

(* C5: the discovery functions never raise, whatever level of the tree is   *)
(* absent or malformed (a regular file where a directory is expected, an    *)
(* entry that disappears between the existence probe and the listing).      *)
C5_NeverRaises == pc # "raised"

(* C6: every ReducedRun that discover_reduced_runs returns has a run number *)
(* >= 0: a folder whose name is not a non-negative integer, such as "-5",   *)
(* produces no record.                                                      *)
C6_RunNumbersNonNegative ==
    ReturnedFrom("discover_reduced_runs") => \A i \in Indices : ret[i].run_number >= 0

(* C7: a timestamp folder produces a record if and only if it holds the     *)
(* file reduced_<run:06d>_<timestamp>.nxs or an entry matching              *)
(* reduced_*.nxs; the record's reduced_file is the exactly named file when  *)
(* that exists, else an entry of the folder that the glob matches; and the  *)
(* reduced_file of every returned record exists.                            *)
C7_RecordIffReducedFile ==
    ReturnedFrom("discover_reduced_runs") =>
        /\ ~call.latest_only =>
              {FolderOf(ret[i]) : i \in Indices}
                  = {d \in TimestampFolders(CalledRoot) : HasReducedFile(d)}
        /\ \A i \in Indices :
             LET d     == FolderOf(ret[i])
                 exact == d \o <<reduced_pattern(ret[i].run_number, ret[i].timestamp)>>
             IN  /\ d \in TimestampFolders(CalledRoot)
                 /\ RunNumberOf(d) = ret[i].run_number /\ Name(d) = ret[i].timestamp
                 /\ Exists(ret[i].reduced_file)
                 /\ IF Exists(exact) THEN ret[i].reduced_file = exact
                    ELSE glob_match(Name(ret[i].reduced_file))
                 /\ (ret[i].run_number = 7 /\ ret[i].timestamp = Ts1
                        /\ Exists(d \o <<ReducedRun7Ts1>>))
                       => ret[i].reduced_file = d \o <<ReducedRun7Ts1>>

\* a record took the exactly named file from a folder that also holds
\* another entry the glob matches
C7_Witness ==
    /\ ReturnedFrom("discover_reduced_runs")
    /\ \E i \in Indices :
          /\ Name(ret[i].reduced_file) = ReducedRun7Ts1
          /\ Exists(FolderOf(ret[i]) \o <<FileCustom>>)

(* C8: in every returned record record_file is set if and only if           *)
(* ReductionRecord.json exists in the record's timestamp folder, and        *)
(* pixelmask_file if and only if pixelmask_<run:06d>_<timestamp>.h5 exists  *)
(* there; a path that is set points at that file in that folder.            *)
C8_OptionalFilesIffExist ==
    ReturnedFrom("discover_reduced_runs") =>
        \A i \in Indices :
            LET r    == ret[i]
                d    == FolderOf(r)
                mask == d \o <<pixelmask_pattern(r.run_number, r.timestamp)>>
            IN  /\ (r.record_file # NoPath) <=> Exists(d \o <<ReductionRecord>>)
                /\ r.record_file # NoPath => r.record_file = d \o <<ReductionRecord>>
                /\ (r.pixelmask_file # NoPath) <=> Exists(mask)
                /\ r.pixelmask_file # NoPath => r.pixelmask_file = mask
                /\ (r.run_number = 7 /\ r.timestamp = Ts1)
                      => ((r.pixelmask_file # NoPath) <=> Exists(d \o <<PixelmaskRun7Ts1>>))

\* a record has its record file and no pixel mask, in a folder that holds
\* the pixel mask of another run
C8_Witness ==
    /\ ReturnedFrom("discover_reduced_runs")
    /\ \E i \in Indices :
          /\ ret[i].record_file # NoPath
          /\ ret[i].pixelmask_file = NoPath
          /\ Exists(FolderOf(ret[i]) \o <<pixelmask_pattern(ret[i].run_number + 1,
                                                            ret[i].timestamp)>>)

\* the state ids discover_state_ids finds
DiscoveredStates ==
    {n \in EntryNames(SnapredRoot) : IsDir(SnapredRoot \o <<n>>) /\ state_pattern_match(n)}

(* C9: discover_all_reduced_data returns one StateInfo for every discovered *)
(* state id that has a reduced run and none for a state without runs, in    *)
(* ascending state id order; the reduced_runs of each hold one entry per    *)
(* run number, in ascending run number, each with the StateInfo's state id. *)
C9_OneStateInfoPerStateWithRuns ==
    Completed("discover_all_reduced_data") =>
        /\ pc = "returned"
        /\ {ret[i].state_id : i \in Indices}
              = {s \in DiscoveredStates : AcceptedFolders(StateRoot(IPTS, s, call.lite)) # {}}
        /\ \A i, j \in Indices : i < j => StrLess(ret[i].state_id, ret[j].state_id)
        /\ \A i \in Indices :
             LET runs == ret[i].reduced_runs
                 root == StateRoot(IPTS, ret[i].state_id, call.lite)
             IN  /\ runs # <<>>
                 /\ {runs[k].run_number : k \in 1..Len(runs)}
                       = {RunNumberOf(d) : d \in AcceptedFolders(root)}
                 /\ \A k, m \in 1..Len(runs) :
                      k < m => runs[k].run_number < runs[m].run_number
                 /\ \A k \in 1..Len(runs) : runs[k].state_id = ret[i].state_id

(* C10: metadata enrichment never yields null and never changes which       *)
(* records are returned: title, duration and start_time of every record are *)
(* set, to "", 0.0 and "" when h5py is missing or the file cannot be        *)
(* opened; no call raises because of a reduced file; and the (run number,   *)
(* timestamp) pairs returned are those of the timestamp folders that hold a *)
(* reduced file, whatever the files hold.                                   *)
C10_MetadataNeverNullNeverFatal ==
    /\ pc = "raised" => exc \in {"NotADirectoryError", "FileNotFoundError"}
    /\ ReturnedFrom("discover_reduced_runs") =>
          /\ \A i \in Indices :
               /\ ret[i].title # PyNone
               /\ ret[i].duration # PyNone /\ ret[i].duration.t = "float"
               /\ ret[i].start_time # PyNone
               /\ (~has_h5py \/ ContainerOf(ret[i].reduced_file) = Unopenable)
                     => /\ ret[i].title = EmptyStr
                        /\ ret[i].duration = PyFloat(0)
                        /\ ret[i].start_time = EmptyStr
          /\ ~call.latest_only =>
                {<<ret[i].run_number, ret[i].timestamp>> : i \in Indices}
                    = {<<RunNumberOf(d), Name(d)>> : d \in AcceptedFolders(CalledRoot)}

\* both runs are returned although the duration of one reduced file is text
\* that float() rejects; that record carries the defaults
C10_Witness ==
    /\ ReturnedFrom("discover_reduced_runs")
    /\ has_h5py
    /\ Len(ret) = 2
    /\ \E i \in Indices :
          /\ ret[i].reduced_file = MetaFile
          /\ ContainerOf(MetaFile) # Unopenable
          /\ ContainerOf(MetaFile).duration = NpBytes(NotANumber)
          /\ ContainerOf(MetaFile).title = Vector(NpBytes(TitleText))
          /\ ret[i].title = EmptyStr /\ ret[i].duration = PyFloat(0)

----------------------------------------------------------------------------
(* services/metadata.py: RunMetadata and the raw NeXus files.               *)

IPTS2 ==
    <<"I", "P", "T", "S", "-", "2">>
nexus ==
    <<"n", "e", "x", "u", "s">>
SnapPrefix ==
    <<"S", "N", "A", "P", "_">>
NativeSuffix ==
    <<".", "n", "x", "s", ".", "h", "5">>
LiteSuffix ==
    <<".", "l", "i", "t", "e", ".", "n", "x", "s", ".", "h", "5">>
IptsPrefix ==
    <<"I", "P", "T", "S", "-">>

\* f"{run_number}"
FormatD(n) == IF n < 0 THEN <<"-">> \o DecimalDigits(0 - n) ELSE DecimalDigits(n)

\* <ipts_dir>/nexus/SNAP_<run>.nxs.h5
NativePath(ipts_dir, run_number) ==
    ipts_dir \o <<nexus, SnapPrefix \o FormatD(run_number) \o NativeSuffix>>

\* <ipts_dir>/shared/lite/SNAP_<run>.lite.nxs.h5
LitePath(ipts_dir, run_number) ==
    ipts_dir \o <<shared, lite, SnapPrefix \o FormatD(run_number) \o LiteSuffix>>

\* ipts=None, and ipts="" which is falsy as well
NoIpts == <<>>

\* the message of RunMetadata.error: the f-string and what it interpolates
ErrorText(fmt, args) == PyStr([fmt |-> fmt, args |-> args])

\* extras: dict = field(default_factory=dict)
NoExtras == [k \in {} |-> PyNone]

\* RunMetadata(run_number=..., error=...): every other field at its default
ErrorMetadata(run_number, error) ==
    [run_number      |-> run_number,
     title           |-> EmptyStr,
     start_time      |-> EmptyStr,
     end_time        |-> EmptyStr,
     duration        |-> PyFloat(0),
     total_counts    |-> PyInt(0),
     file_size_bytes |-> 0,
     file_path       |-> EmptyStr,
     error           |-> error,
     extras          |-> NoExtras]

\* int(x) of a Python value; ok = FALSE is ValueError or TypeError
PyIntOf(x) ==
    IF x.t \in {"float", "int"} THEN [ok |-> TRUE, val |-> PyInt(x.v)]
    ELSE IF x.t = "bytes" /\ int(x.v).ok
         THEN [ok |-> TRUE, val |-> PyInt(int(x.v).val)]
    ELSE IF x.t = "str" /\ "lit" \in DOMAIN x.v /\ int(x.v.lit).ok
         THEN [ok |-> TRUE, val |-> PyInt(int(x.v.lit).val)]
    ELSE [ok |-> FALSE, val |-> PyNone]

\* the first index from `from` on at which s holds one of cs, else Len(s) + 1
IndexOfAny(s, cs, from) ==
    LET hits == {i \in from..Len(s) : s[i] \in cs}
    IN  IF hits = {} THEN Len(s) + 1 ELSE CHOOSE i \in hits : \A j \in hits : i <= j

\* lines 208-214: int(name.split("_")[1].split(".")[0]) of SNAP_<...>, else 0
RunNumberFromName(name) ==
    IF ~StartsWith(name, SnapPrefix) THEN 0
    ELSE LET from  == Len(SnapPrefix) + 1
             piece == SubSeq(name, from, IndexOfAny(name, {"_", "."}, from) - 1)
         IN  IF int(piece).ok THEN int(piece).val ELSE 0

\* read_value(key, default) of get_run_metadata_from_file, lines 220-241:
\* raw[0] of whatever has a length and is not empty, decoded or unwrapped
read_value(f, key, default) ==
    IF f[key].k = "absent" THEN default
    ELSE IF HasLen(f[key]) /\ PyLen(f[key]) > 0
    THEN OrDefault(Unwrap(First(f[key])), default)
    ELSE OrDefault(Unwrap(f[key]), default)

\* Populated with the conversions of lines 256-257 reported in the record
\* instead of raised: the fields already read are kept next to the error
PopulatedWithError(path, run_number, f, duration, total_counts) ==
    [run_number      |-> run_number,
     title           |-> read_value(f, "title", EmptyStr),
     start_time      |-> read_value(f, "start_time", EmptyStr),
     end_time        |-> read_value(f, "end_time", EmptyStr),
     duration        |-> IF duration.ok THEN duration.val ELSE PyFloat(0),
     total_counts    |-> IF total_counts.ok THEN total_counts.val ELSE PyInt(0),
     file_size_bytes |-> f.st_size,
     file_path       |-> PyStr(StrOf(path)),
     error           |-> IF duration.ok /\ total_counts.ok THEN PyNone
                         ELSE ErrorText("Error reading file: {e}", <<>>),
     extras          |-> NoExtras]

\* lines 251-260, or line 263 when float() or int() raised
Populated(path, run_number, f, duration, total_counts) ==
    IF ~duration.ok \/ ~total_counts.ok
    THEN ErrorMetadata(run_number, ErrorText("Error reading file: {e}", <<>>))
    ELSE [run_number      |-> run_number,
          title           |-> read_value(f, "title", EmptyStr),
          start_time      |-> read_value(f, "start_time", EmptyStr),
          end_time        |-> read_value(f, "end_time", EmptyStr),
          duration        |-> duration.val,
          total_counts    |-> total_counts.val,
          file_size_bytes |-> f.st_size,
          file_path       |-> PyStr(StrOf(path)),
          error           |-> PyNone,
          extras          |-> NoExtras]

\* lines 216-263 on what the file holds
ReadRawContainer(path, run_number, f) ==
    IF "k" \in DOMAIN f
    THEN ErrorMetadata(run_number, ErrorText("Error reading file: {e}", <<>>))
    ELSE Populated(path, run_number, f,
                   float(read_value(f, "duration", PyFloat(0))),
                   PyIntOf(read_value(f, "total_counts", PyInt(0))))

\* get_run_metadata_from_file(file_path)
get_run_metadata_from_file(path) ==
    IF ~Exists(path)
    THEN ErrorMetadata(0, ErrorText("File not found: {file_path}", <<path>>))
    ELSE IF ~has_h5py THEN ErrorMetadata(0, ErrorText("h5py not installed", <<>>))
    ELSE ReadRawContainer(path, RunNumberFromName(Name(path)), ContainerOf(path))

\* lines 148-154 and 174-180: the native file, else the lite file, of one
\* experiment folder
ProbeIpts(ipts_dir, run_number) ==
    IF Exists(NativePath(ipts_dir, run_number)) THEN NativePath(ipts_dir, run_number)
    ELSE IF Exists(LitePath(ipts_dir, run_number)) THEN LitePath(ipts_dir, run_number)
    ELSE NoPath

\* sorted(base.glob("IPTS-*"), reverse=True)
IptsFolders ==
    LET names == {n \in EntryNames(<<>>) : StartsWith(n, IptsPrefix)}
        listed == SeqByRank(names, NameRank(names, FALSE))
    IN  SortedReverse(listed, listed)

\* lines 172-182: the first experiment folder that holds the run
RECURSIVE ScanIpts(_, _)
ScanIpts(folders, run_number) ==
    IF folders = <<>> THEN NoPath
    ELSE IF ProbeIpts(<<Head(folders)>>, run_number) # NoPath
    THEN ProbeIpts(<<Head(folders)>>, run_number)
    ELSE ScanIpts(Tail(folders), run_number)

\* find_nexus_file(run_number, ipts).  located is what finddata's
\* cli.getFileLoc reports, NoPath when finddata is missing or raises.
find_nexus_file(run_number, ipts, located) ==
    IF ipts # NoIpts /\ Exists(<<ipts>>) /\ ProbeIpts(<<ipts>>, run_number) # NoPath
    THEN ProbeIpts(<<ipts>>, run_number)
    ELSE IF located # NoPath /\ Exists(located) THEN located
    ELSE ScanIpts(IptsFolders, run_number)

\* NotLocated as the result of handing a missing path on to
\* get_run_metadata_from_file (line 202) instead of lines 287-295
NotLocatedFileNotFound(run_number, ipts) ==
    ErrorMetadata(0, ErrorText("File not found: {file_path}", <<NoPath>>))

\* lines 287-295
NotLocated(run_number, ipts) ==
    IF ipts # NoIpts
    THEN ErrorMetadata(run_number,
            ErrorText("Could not locate file for run {run_number} in {ipts}",
                      <<run_number, ipts>>))
    ELSE ErrorMetadata(run_number,
            ErrorText("Could not locate file for run {run_number}", <<run_number>>))

----------------------------------------------------------------------------
(* The raw files and containers the metadata calls are checked on.          *)

\* the container of a raw file as the instrument writes it, with the size
\* stat() reports for the file
DefaultRawContainer ==
    [title        |-> Vector(NpBytes(TitleText)),
     start_time   |-> Vector(NpBytes(StartText)),
     end_time     |-> Vector(NpBytes(StartText)),
     duration     |-> Vector(NpNumber(45)),
     total_counts |-> Vector(NpNumber(6)),
     st_size      |-> 2048]

RawContainers ==
    [title        : {Absent, Vector(NpBytes(TitleText)), Bytes(TitleText),
                     Vector(BadBytes(TitleText))},
     start_time   : {Absent, Vector(NpBytes(StartText))},
     end_time     : {Absent, Vector(NpBytes(StartText))},
     duration     : {Absent, Vector(NpNumber(45)), NpNumber(45), Vector(NpBytes(DurationText)),
                     Vector(NpBytes(NotANumber)), Vector(BadBytes(DurationText))},
     total_counts : {Absent, Vector(NpNumber(6)), Vector(NpBytes(NotANumber))},
     st_size      : {0, 2048}]

RunArgs == {7, 8}

IptsArgs == {NoIpts, IPTS, IPTS2}

\* the raw files of run 7
RawFiles ==
    {NativePath(<<IPTS>>, 7), LitePath(<<IPTS>>, 7),
     NativePath(<<IPTS2>>, 7), LitePath(<<IPTS2>>, 7)}

IptsDirs(ipts) == {<<ipts>>, <<ipts, nexus>>, <<ipts, shared>>, <<ipts, shared, lite>>}

\* two experiments, each present or not, holding any of the raw files of
\* run 7; and a file whose name carries no run number
RawTrees ==
    {Tree(UNION {IptsDirs(i) : i \in present},
          {p \in files : p[1] \in present}
              \cup {<<i, nexus, FileOther>> : i \in present \cap {IPTS2}}) :
        present \in SUBSET {IPTS, IPTS2}, files \in SUBSET RawFiles}

\* one experiment with both raw files of run 7
RawMetaTree == Tree(IptsDirs(IPTS), {NativePath(<<IPTS>>, 7), LitePath(<<IPTS>>, 7)})

RawMetaFile == NativePath(<<IPTS>>, 7)

\* what finddata reports: nothing, a raw file, or a path that is gone
Locations == {NoPath, NativePath(<<IPTS2>>, 7), <<IPTS2, nexus, FileOther>>}

\* the files get_run_metadata_from_file is called on
RawPathArgs == RawFiles \cup {<<IPTS2, nexus, FileOther>>}

\* the files get_metadata_from_reduced_file is called on
ReducedPathArgs == {MetaFile, LiteRoot \o <<Run7, Ts2, reduced_pattern(7, Ts2)>>}

IsRawName(p) == EndsWith(Name(p), NativeSuffix) \/ Name(p) = FileOther

InitMeta ==
    /\ pc = "idle" /\ call = NoCall /\ ret = <<>> /\ exc = ""
    /\ entries = <<>> /\ config = <<>> /\ now = 0
    /\ NoKernel
    /\ \/ /\ fs \in RawTrees
          /\ has_h5py = TRUE
          /\ h5data = [p \in {q \in fs.files : IsRawName(q)} |-> DefaultRawContainer]
       \/ /\ fs = RawMetaTree
          /\ has_h5py \in BOOLEAN
          /\ \E c \in RawContainers \cup {Unopenable} :
                h5data = [p \in fs.files |-> IF p = RawMetaFile THEN c ELSE DefaultRawContainer]
       \/ /\ fs = MetaTree
          /\ has_h5py = TRUE
          /\ \E c \in Containers :
                h5data = [p \in {q \in fs.files : IsReducedName(q)} |->
                             IF p = MetaFile THEN c ELSE DefaultContainer]

\* find_nexus_file(run_number, ipts)
FindNexusFile ==
    /\ pc = "idle"
    /\ \E r \in RunArgs, i \in IptsArgs, located \in Locations :
          /\ call' = [fn |-> "find_nexus_file", run_number |-> r, ipts |-> i,
                      located |-> located]
          /\ Finish(Returned(find_nexus_file(r, i, located)))
    /\ UNCHANGED <<fs, has_h5py, h5data, entries, config, now, kernel_vars>>

\* get_run_metadata(run_number, ipts), lines 285-295: the file is looked for
GetRunMetadata ==
    /\ pc = "idle"
    /\ \E r \in RunArgs, i \in IptsArgs, located \in Locations :
          /\ call' = [fn |-> "get_run_metadata", run_number |-> r, ipts |-> i,
                      located |-> located, file_path |-> find_nexus_file(r, i, located)]
          /\ IF find_nexus_file(r, i, located) = NoPath
             THEN Finish(Returned(NotLocated(r, i)))
             ELSE pc' = "located" /\ UNCHANGED <<ret, exc>>
    /\ UNCHANGED <<fs, has_h5py, h5data, entries, config, now, kernel_vars>>

\* get_run_metadata, line 297: the located file is read
ReadLocated ==
    /\ pc = "located"
    /\ Finish(Returned(get_run_metadata_from_file(call.file_path)))
    /\ UNCHANGED <<fs, has_h5py, h5data, call, entries, config, now, kernel_vars>>

\* the located file is moved away between the search and the read
VanishLocated ==
    /\ pc = "located"
    /\ Exists(call.file_path)
    /\ fs' = Tree(fs.dirs, fs.files \ {call.file_path})
    /\ h5data' = [p \in DOMAIN h5data \ {call.file_path} |-> h5data[p]]
    /\ UNCHANGED <<has_h5py, pc, call, ret, exc, entries, config, now, kernel_vars>>

\* get_run_metadata_from_file(file_path)
GetRunMetadataFromFile ==
    /\ pc = "idle"
    /\ \E p \in RawPathArgs :
          /\ call' = [fn |-> "get_run_metadata_from_file", file_path |-> p]
          /\ Finish(Returned(get_run_metadata_from_file(p)))
    /\ UNCHANGED <<fs, has_h5py, h5data, entries, config, now, kernel_vars>>

\* get_metadata_from_reduced_file(reduced_file)
GetMetadataFromReducedFile ==
    /\ pc = "idle"
    /\ \E p \in ReducedPathArgs :
          /\ call' = [fn |-> "get_metadata_from_reduced_file", file_path |-> p]
          /\ Finish(get_metadata_from_reduced_file(p))
    /\ UNCHANGED <<fs, has_h5py, h5data, entries, config, now, kernel_vars>>

NextMeta ==
    \/ FindNexusFile
    \/ GetRunMetadata
    \/ ReadLocated
    \/ VanishLocated
    \/ GetRunMetadataFromFile
    \/ GetMetadataFromReducedFile
    \/ Return

SpecMeta == InitMeta /\ [][NextMeta]_vars

----------------------------------------------------------------------------
(* Claims on the metadata extractors and on raw-file resolution.            *)

\* float(x) where it converts, the typed default where float() raises
FloatOrDefault(x) == IF float(x).ok THEN float(x).val ELSE PyFloat(0)

\* int(x) where it converts, the typed default where int() raises
IntOrDefault(x) == IF PyIntOf(x).ok THEN PyIntOf(x).val ELSE PyInt(0)

\* get_run_metadata_from_file has read the container of an existing file
RawContainerRead ==
    /\ ReturnedFrom("get_run_metadata_from_file")
    /\ has_h5py
    /\ Exists(call.file_path)
    /\ ContainerOf(call.file_path) # Unopenable

\* get_metadata_from_reduced_file has read the container of an existing file
ReducedContainerRead ==
    /\ ReturnedFrom("get_metadata_from_reduced_file")
    /\ has_h5py
    /\ Exists(call.file_path)
    /\ ContainerOf(call.file_path) # Unopenable

\* C11: in both extractors a failure on one key stays with that key.  Once
\* the container of an existing file was opened, no error is signalled and
\* every field holds what its own key gives: the value read and converted,
\* or the typed default where the key is missing, cannot be decoded or
\* cannot be converted -- whatever the other keys hold.
C11_FailureContainedToKey ==
    /\ RawContainerRead =>
          LET f == ContainerOf(call.file_path)
          IN  /\ ret.error = PyNone
              /\ ret.title = read_value(f, "title", EmptyStr)
              /\ ret.start_time = read_value(f, "start_time", EmptyStr)
              /\ ret.end_time = read_value(f, "end_time", EmptyStr)
              /\ ret.duration = FloatOrDefault(read_value(f, "duration", PyFloat(0)))
              /\ ret.total_counts = IntOrDefault(read_value(f, "total_counts", PyInt(0)))
    /\ ReducedContainerRead =>
          LET f == ContainerOf(call.file_path)
          IN  /\ ret.title = Or(read_title(f), EmptyStr)
              /\ ret.start_time = Or(read_log_value(f, "start_time", EmptyStr), EmptyStr)
              /\ ret.duration =
                    FloatOrDefault(Or(read_log_value(f, "duration", PyFloat(0)), PyFloat(0)))

----------------------------------------------------------------------------
(* The per-key read helpers, applied to one dataset.                        *)

\* read_value(key, default) of get_run_metadata_quick, data.py lines 243-259
quick_read_value(f, key, default) ==
    IF f[key].k = "absent" THEN default
    ELSE IF HasLen(f[key]) /\ PyLen(f[key]) > 0
    THEN OrDefault(Unwrap(First(f[key])), default)
    ELSE OrDefault(Unwrap(f[key]), default)

\* what ds[()] gives for the dataset read
Payloads ==
    {Absent, NpNumber(45), Vector(NpNumber(45)),
     Bytes(TitleText), NpBytes(TitleText), Vector(NpBytes(TitleText)), Vector(Bytes(TitleText)),
     Bytes(<<>>), BadBytes(TitleText), Vector(BadBytes(TitleText)),
     NdArray(<<0>>, <<>>), NdArray(<<2>>, <<NpNumber(45), NpNumber(46)>>),
     NdArray(<<1, 1>>, <<NpBytes(TitleText)>>)}

\* the defaults the callers pass: None, "", 0.0 and 0
Defaults == {"None", "str", "float", "int"}

DefaultOf(tag) ==
    CASE tag = "None"  -> PyNone
      [] tag = "str"   -> EmptyStr
      [] tag = "float" -> PyFloat(0)
      [] tag = "int"   -> PyInt(0)

\* a container holding the payload under the key that is read
KeyContainer(payload) == [value |-> payload, title |-> payload, run_title |-> Absent]

InitRead ==
    /\ pc = "idle" /\ call = NoCall /\ ret = <<>> /\ exc = ""
    /\ entries = <<>> /\ config = <<>> /\ now = 0
    /\ NoKernel
    /\ fs = RawMetaTree
    /\ has_h5py = TRUE
    /\ \E p \in Payloads : h5data = [q \in {RawMetaFile} |-> KeyContainer(p)]

\* read_value(key, default) inside get_run_metadata_from_file
ReadValue ==
    /\ pc = "idle"
    /\ \E d \in Defaults :
          /\ call' = [fn |-> "read_value", default |-> DefaultOf(d)]
          /\ Finish(Returned(read_value(ContainerOf(RawMetaFile), "value", DefaultOf(d))))
    /\ UNCHANGED <<fs, has_h5py, h5data, entries, config, now, kernel_vars>>

\* read_value(key, default) inside get_run_metadata_quick
QuickReadValue ==
    /\ pc = "idle"
    /\ \E d \in Defaults :
          /\ call' = [fn |-> "quick_read_value", default |-> DefaultOf(d)]
          /\ Finish(Returned(quick_read_value(ContainerOf(RawMetaFile), "value", DefaultOf(d))))
    /\ UNCHANGED <<fs, has_h5py, h5data, entries, config, now, kernel_vars>>

\* read_log_value(log_name, default) inside get_metadata_from_reduced_file
ReadLogValue ==
    /\ pc = "idle"
    /\ \E d \in Defaults :
          /\ call' = [fn |-> "read_log_value", default |-> DefaultOf(d)]
          /\ Finish(Returned(read_log_value(ContainerOf(RawMetaFile), "value", DefaultOf(d))))
    /\ UNCHANGED <<fs, has_h5py, h5data, entries, config, now, kernel_vars>>

\* read_title() inside get_metadata_from_reduced_file; its default is ""
ReadTitle ==
    /\ pc = "idle"
    /\ call' = [fn |-> "read_title", default |-> EmptyStr]
    /\ Finish(Returned(read_title(ContainerOf(RawMetaFile))))
    /\ UNCHANGED <<fs, has_h5py, h5data, entries, config, now, kernel_vars>>

NextRead ==
    \/ ReadValue
    \/ QuickReadValue
    \/ ReadLogValue
    \/ ReadTitle
    \/ Return

SpecRead == InitRead /\ [][NextRead]_vars

\* the dataset the helper was applied to
PayloadRead == ContainerOf(RawMetaFile).value

\* a helper that takes a default has returned
HelperReturned ==
    /\ pc = "returned"
    /\ call.fn \in {"read_value", "quick_read_value", "read_log_value"}

\* the single element of a length-1 array, else the payload itself
Scalar(p) == IF p.k = "ndarray" /\ p.shape = <<1>> THEN p.elems[1] ELSE p

\* Python values of the same type and value
Same(x, y) == x.t = y.t /\ (x.t = "None" \/ x.v = y.v)

\* what the read contract gives for a scalar payload
Decoded(p, default) ==
    IF p.k = "np_number" THEN PyFloat(p.v)
    ELSE IF p.utf8 THEN PyStr(Lit(p.v))
    ELSE default

\* C12: every read helper obeys the common read contract.  An absent key
\* gives the caller's default; a numeric payload, scalar or the element of
\* a length-1 array, gives the plain number; a byte string, scalar or the
\* element of a length-1 array, gives the decoded text of the whole string;
\* bytes that cannot be decoded give the default.
C12_ReadContract ==
    /\ HelperReturned =>
          /\ PayloadRead = Absent => Same(ret, call.default)
          /\ Scalar(PayloadRead).k \in {"np_number", "bytes", "np_bytes"} =>
                Same(ret, Decoded(Scalar(PayloadRead), call.default))
    /\ ReturnedFrom("read_title") =>
          /\ PayloadRead = Absent => Same(ret, call.default)
          /\ Scalar(PayloadRead).k \in {"bytes", "np_bytes"} =>
                Same(ret, Decoded(Scalar(PayloadRead), call.default))

\* get_run_metadata or get_run_metadata_from_file has returned
MetadataReturned ==
    pc = "returned" /\ call.fn \in {"get_run_metadata", "get_run_metadata_from_file"}

\* every field but run_number and error holds its default
FieldsAtDefault(r) ==
    /\ r.title = EmptyStr /\ r.start_time = EmptyStr /\ r.end_time = EmptyStr
    /\ r.duration = PyFloat(0) /\ r.total_counts = PyInt(0)
    /\ r.file_size_bytes = 0 /\ r.file_path = EmptyStr

\* the fields of r are those of the file at path
PopulatedFrom(r, path) ==
    /\ path # NoPath /\ Exists(path) /\ ContainerOf(path) # Unopenable
    /\ LET f == ContainerOf(path)
       IN  /\ r.run_number = RunNumberFromName(Name(path))
           /\ r.title = read_value(f, "title", EmptyStr)
           /\ r.start_time = read_value(f, "start_time", EmptyStr)
           /\ r.end_time = read_value(f, "end_time", EmptyStr)
           /\ float(read_value(f, "duration", PyFloat(0))).ok
           /\ r.duration = float(read_value(f, "duration", PyFloat(0))).val
           /\ PyIntOf(read_value(f, "total_counts", PyInt(0))).ok
           /\ r.total_counts = PyIntOf(read_value(f, "total_counts", PyInt(0))).val
           /\ r.file_size_bytes = f.st_size
           /\ r.file_path = PyStr(StrOf(path))

\* C13: every RunMetadata that get_run_metadata or
\* get_run_metadata_from_file returns either has no error and is populated
\* from the located file, or has an error and holds the defaults in title,
\* start_time, end_time, duration, total_counts, file_size_bytes and
\* file_path; never an error next to populated fields.
C13_ErrorOrPopulated ==
    MetadataReturned =>
       \/ ret.error = PyNone /\ PopulatedFrom(ret, call.file_path)
       \/ ret.error # PyNone /\ FieldsAtDefault(ret)

\* get_run_metadata located the file, read its title and failed on a
\* duration that float() rejects: the record has the error and no title
C13_Witness ==
    /\ ReturnedFrom("get_run_metadata")
    /\ call.file_path # NoPath /\ Exists(call.file_path)
    /\ ContainerOf(call.file_path) # Unopenable
    /\ ContainerOf(call.file_path).title = Vector(NpBytes(TitleText))
    /\ ContainerOf(call.file_path).duration = Vector(NpBytes(NotANumber))
    /\ ret.error # PyNone
    /\ ret.title = EmptyStr

\* C14: raw-file resolution for an experiment and a run number gives the
\* native file of that experiment when it exists, else its lite file when
\* that exists, else not-found; so never a path that does not exist and
\* never a path under another experiment.
C14_ResolvesWithinExperiment ==
    (ReturnedFrom("find_nexus_file") /\ call.ipts # NoIpts) =>
       /\ ret = IF Exists(NativePath(<<call.ipts>>, call.run_number))
                THEN NativePath(<<call.ipts>>, call.run_number)
                ELSE IF Exists(LitePath(<<call.ipts>>, call.run_number))
                THEN LitePath(<<call.ipts>>, call.run_number)
                ELSE NoPath
       /\ ret # NoPath => Exists(ret) /\ ret[1] = call.ipts

\* the experiment folders a search can look into
SearchedFolders(ipts) ==
    {<<n>> : n \in {e \in EntryNames(<<>>) : StartsWith(e, IptsPrefix)}}
        \cup (IF ipts = NoIpts THEN {} ELSE {<<ipts>>})

\* no raw file of the run exists in any experiment folder, and finddata
\* reports nothing that exists
NowhereLocated(run_number, ipts, located) ==
    /\ \A d \in SearchedFolders(ipts) :
          ~Exists(NativePath(d, run_number)) /\ ~Exists(LitePath(d, run_number))
    /\ located = NoPath \/ ~Exists(located)

\* C15: get_run_metadata for a run whose raw file cannot be located
\* anywhere returns, in the same step and without raising, a RunMetadata
\* whose error is the "Could not locate" message, whose run_number is the
\* requested one and whose other fields are empty or zero.
C15_NotLocatedRecord ==
    [][(/\ pc = "idle"
        /\ call'.fn = "get_run_metadata"
        /\ NowhereLocated(call'.run_number, call'.ipts, call'.located))
       => /\ pc' = "returned"
          /\ ret'.error \in
                {ErrorText("Could not locate file for run {run_number} in {ipts}",
                           <<call'.run_number, call'.ipts>>),
                 ErrorText("Could not locate file for run {run_number}",
                           <<call'.run_number>>)}
          /\ ret'.run_number = call'.run_number
          /\ FieldsAtDefault(ret')]_vars

\* run 8 was asked for in an experiment that holds run 7 only
C15_Witness ==
    /\ ReturnedFrom("get_run_metadata")
    /\ call.run_number = 8 /\ call.ipts = IPTS /\ call.located = NoPath
    /\ Exists(NativePath(<<IPTS>>, 7))
    /\ NowhereLocated(8, IPTS, NoPath)
    /\ ret = ErrorMetadata(8, ErrorText("Could not locate file for run {run_number} in {ipts}",
                                        <<8, IPTS>>))

----------------------------------------------------------------------------
(* The display properties of ReducedRun and RunMetadata.  A float is        *)
(* modelled as the rational it is meant to hold, [num, den]; text is a      *)
(* sequence of characters.                                                  *)

SecUnit ==
    <<" ", "s", "e", "c">>
MinUnit ==
    <<" ", "m", "i", "n">>
HrUnit ==
    <<" ", "h", "r">>
HoursUnit ==
    <<" ", "h", "o", "u", "r", "s">>
RateUnit ==
    <<" ", "M", "E", "/", "s">>
NotAvailable ==
    <<"N", "/", "A">>

Rational(num, den) == [num |-> num, den |-> den]

\* x < n
RatLess(x, n) == x.num < n * x.den

\* x / n
RatDiv(x, n) == Rational(x.num, x.den * n)

RECURSIVE GCD(_, _)
GCD(a, b) == IF b = 0 THEN a ELSE GCD(b, a % b)

RECURSIVE IsPowerOfTwo(_)
IsPowerOfTwo(n) == n = 1 \/ (n > 1 /\ n % 2 = 0 /\ IsPowerOfTwo(n \div 2))

\* the float holds x exactly: the reduced denominator is a power of two
Representable(x) == x.num = 0 \/ IsPowerOfTwo(x.den \div GCD(x.num, x.den))

RECURSIVE Pow10(_)
Pow10(places) == IF places = 0 THEN 1 ELSE 10 * Pow10(places - 1)

\* num / den rounded to an integer; tie says where a value exactly halfway
\* goes: "even", "up" or "down"
Round(num, den, tie) ==
    IF 2 * (num % den) < den THEN num \div den
    ELSE IF 2 * (num % den) > den THEN (num \div den) + 1
    ELSE IF tie = "up" THEN (num \div den) + 1
    ELSE IF tie = "down" THEN num \div den
    ELSE IF (num \div den) % 2 = 0 THEN num \div den
    ELSE (num \div den) + 1

\* the digits of n units of 10^-places
FixedDigits(n, places) ==
    DecimalDigits(n \div Pow10(places))
        \o (IF places = 0 THEN <<>>
            ELSE <<".">> \o ZeroPad(DecimalDigits(n % Pow10(places)), places))

\* f"{x:.<places>f}" of a float x >= 0.  The format rounds the float's own
\* binary value, half to even: a rational the float holds exactly and that
\* lies halfway goes to even; one it does not hold exactly is stored a
\* little above or below, and goes where tie ("up" or "down") says.
FormatFixed(x, places, exact, tie) ==
    LET g == GCD(Pow10(places), x.den)
    IN  FixedDigits(Round(x.num * (Pow10(places) \div g), x.den \div g,
                          IF exact THEN "even" ELSE tie),
                    places)

\* duration_display, metadata.py lines 56-65 and data.py lines 66-75; the
\* two differ in the unit of the last branch.  sec / 60 is exact only if
\* sec is and the quotient is a float.
DurationDisplay(sec, tie, hours_unit) ==
    IF RatLess(sec, 60) THEN FormatFixed(sec, 0, Representable(sec), tie) \o SecUnit
    ELSE IF RatLess(sec, 3600)
    THEN FormatFixed(RatDiv(sec, 60), 1,
                     Representable(sec) /\ Representable(RatDiv(sec, 60)), tie) \o MinUnit
    ELSE FormatFixed(RatDiv(sec, 3600), 1,
                     Representable(sec) /\ Representable(RatDiv(sec, 3600)), tie) \o hours_unit

\* ReducedRun.duration_display
ReducedRunDurationDisplay(sec, tie) == DurationDisplay(sec, tie, HrUnit)

\* RunMetadata.duration_display
RunMetadataDurationDisplay(sec, tie) == DurationDisplay(sec, tie, HoursUnit)

\* count_rate_display with the rate cut off after three decimals instead
\* of rounded
CountRateTruncated(total_counts, duration, tie) ==
    IF duration.num > 0
    THEN FixedDigits((total_counts * duration.den) \div (duration.num * 1000), 3) \o RateUnit
    ELSE NotAvailable

\* count_rate_display: total_counts / duration / 1e6 is the result of two
\* float divisions, so a rate exactly halfway between two texts may go
\* either way.  The thousandths shown are total_counts / (1000 * duration).
count_rate_display(total_counts, duration, tie) ==
    IF duration.num > 0
    THEN FixedDigits(Round(total_counts * duration.den, duration.num * 1000, tie), 3)
            \o RateUnit
    ELSE NotAvailable

UnitB ==
    <<" ", "B">>
UnitKB ==
    <<" ", "K", "B">>
UnitMB ==
    <<" ", "M", "B">>
UnitGB ==
    <<" ", "G", "B">>
UnitTB ==
    <<" ", "T", "B">>
UnitPB ==
    <<" ", "P", "B">>

\* for unit in ["B", "KB", "MB", "GB", "TB"]
SizeUnits == <<UnitB, UnitKB, UnitMB, UnitGB, UnitTB>>

\* A byte count is a sequence of limbs, least significant first: the count
\* is limbs[1] + 1024 * limbs[2] + 1024^2 * limbs[3] + ...  Up to 2^53 the
\* float that size /= 1024 produces holds the quotient exactly.
RECURSIVE LimbValue(_)
LimbValue(limbs) == IF limbs = <<>> THEN 0 ELSE Head(limbs) + 1024 * LimbValue(Tail(limbs))

\* limbs times a small factor
RECURSIVE MulSmall(_, _, _)
MulSmall(limbs, factor, carry) ==
    IF limbs = <<>> THEN <<carry>>
    ELSE <<(Head(limbs) * factor + carry) % 1024>>
            \o MulSmall(Tail(limbs), factor, (Head(limbs) * factor + carry) \div 1024)

\* the k lowest limbs of m against half of 1024^k: -1 below, 0 equal, 1 above
HalfCompare(m, k) ==
    IF k = 0 THEN -1
    ELSE IF m[k] > 512 THEN 1
    ELSE IF m[k] < 512 THEN -1
    ELSE IF \A j \in 1..(k - 1) : m[j] = 0 THEN 0 ELSE 1

\* f"{size:.2f}" after k divisions by 1024: the count of hundredths,
\* rounded half to even
Hundredths(limbs, k) ==
    LET m    == MulSmall(limbs, 100, 0)
        q    == LimbValue(SubSeq(m, k + 1, Len(m)))
        half == HalfCompare(m, k)
    IN  IF half > 0 \/ (half = 0 /\ q % 2 = 1) THEN q + 1 ELSE q

\* BelowBase with the comparison of line 51 as size <= 1024
BelowBaseInclusive(limbs, k) ==
    \/ \A j \in (k + 2)..Len(limbs) : limbs[j] = 0
    \/ /\ k + 2 <= Len(limbs) /\ limbs[k + 2] = 1
       /\ \A j \in 1..Len(limbs) : j # k + 2 => limbs[j] = 0

\* size < 1024 after k divisions by 1024
BelowBase(limbs, k) == \A j \in (k + 2)..Len(limbs) : limbs[j] = 0

\* the loop of lines 50-53 from its k-th round on, and line 54
RECURSIVE ScaleFrom(_, _)
ScaleFrom(limbs, k) ==
    IF k = Len(SizeUnits) THEN FixedDigits(Hundredths(limbs, k), 2) \o UnitPB
    ELSE IF BelowBase(limbs, k) THEN FixedDigits(Hundredths(limbs, k), 2) \o SizeUnits[k + 1]
    ELSE ScaleFrom(limbs, k + 1)

\* RunMetadata.file_size_display
file_size_display(limbs) == ScaleFrom(limbs, 0)

\* datetime.strptime(text, "%Y-%m-%dT%H:%M:%S") succeeds.  Of the texts
\* strptime accepts, the zero-padded form YYYY-MM-DDTHH:MM:SS is modelled.
IsoDateTime(text) ==
    /\ Len(text) = 19
    /\ \A i \in 1..19 : IF i \in {5, 8} THEN text[i] = "-"
                         ELSE IF i = 11 THEN text[i] = "T"
                         ELSE IF i \in {14, 17} THEN text[i] = ":"
                         ELSE text[i] \in Digits
    /\ DecimalValue(SubSeq(text, 1, 4)) >= 1
    /\ DecimalValue(SubSeq(text, 6, 7)) \in 1..12
    /\ DecimalValue(SubSeq(text, 9, 10)) \in
          1..(IF DecimalValue(SubSeq(text, 6, 7)) \in {4, 6, 9, 11} THEN 30
              ELSE IF DecimalValue(SubSeq(text, 6, 7)) # 2 THEN 31
              ELSE IF DecimalValue(SubSeq(text, 1, 4)) % 4 = 0
                      /\ (DecimalValue(SubSeq(text, 1, 4)) % 100 # 0
                             \/ DecimalValue(SubSeq(text, 1, 4)) % 400 = 0) THEN 29
              ELSE 28)
    /\ DecimalValue(SubSeq(text, 12, 13)) < 24
    /\ DecimalValue(SubSeq(text, 15, 16)) < 60
    /\ DecimalValue(SubSeq(text, 18, 19)) < 62

\* RunMetadata._format_timestamp(ts), lines 85-100
format_timestamp(ts) ==
    IF ts = <<>> THEN NotAvailable
    ELSE IF IsoDateTime(SubSeq(ts, 1, Min(19, Len(ts))))
    THEN [i \in 1..19 |-> IF i = 11 THEN " " ELSE ts[i]]
    ELSE ts

\* the fields and properties to_dict lists before the extras, lines 105-118
OwnItems(self, tie) ==
    [run_number           |-> self.run_number,
     title                |-> self.title,
     start_time           |-> self.start_time,
     end_time             |-> self.end_time,
     start_time_formatted |-> format_timestamp(self.start_time),
     end_time_formatted   |-> format_timestamp(self.end_time),
     duration             |-> self.duration,
     duration_display     |-> RunMetadataDurationDisplay(self.duration, tie),
     total_counts         |-> self.total_counts,
     count_rate_display   |-> count_rate_display(self.total_counts, self.duration, tie),
     file_size_bytes      |-> self.file_size_bytes,
     file_size_display    |-> file_size_display(self.file_size_bytes),
     file_path            |-> self.file_path,
     error                |-> self.error]

\* {..., **self.extras}: a key of the extras replaces the item of that name
Unpacked(own, extras) ==
    [k \in DOMAIN own \cup DOMAIN extras |-> IF k \in DOMAIN extras THEN extras[k] ELSE own[k]]

\* RunMetadata.to_dict()
to_dict(self, tie) == Unpacked(OwnItems(self, tie), self.extras)

----------------------------------------------------------------------------
(* The display properties applied to drawn values.                          *)

\* durations in quarters of a second, which a float holds exactly: 0 s to
\* 65 s, 125 s, around one hour, two hours
DurationArgs ==
    {Rational(q, 4) : q \in (0..260) \cup {500} \cup (14380..14420) \cup {28800}}

\* where a value the float does not hold exactly may go
Ties == {"up", "down"}

\* byte counts below 2^53, as six limbs
SizeLimbs == {0, 1, 512, 1023}

SizeArgs ==
    {<<a, b, c, d, e, f>> : a \in {0, 5, 512, 1023}, b \in SizeLimbs, c \in SizeLimbs,
                            d \in {0, 1}, e \in {0, 1}, f \in {0, 7}}

CountArgs == {0, 1, 1000, 1500, 1000000, 6000000}

\* durations of the count rate: -1 s, 0 s, 0.25 s, 1 s, 2 s, 4 s
RateDurations == {Rational(q, 4) : q \in {-4, 0, 1, 4, 8, 16}}

InitDisplay ==
    /\ pc = "idle" /\ call = NoCall /\ ret = <<>> /\ exc = ""
    /\ entries = <<>> /\ config = <<>> /\ now = 0
    /\ NoKernel
    /\ fs = Tree({}, {})
    /\ has_h5py = TRUE
    /\ h5data = [p \in {} |-> Unopenable]

\* ReducedRun.duration_display
ReducedRunDuration ==
    /\ pc = "idle"
    /\ \E sec \in DurationArgs, tie \in Ties :
          /\ call' = [fn |-> "ReducedRun.duration_display", duration |-> sec]
          /\ Finish(Returned(ReducedRunDurationDisplay(sec, tie)))
    /\ UNCHANGED <<fs, has_h5py, h5data, entries, config, now, kernel_vars>>

\* RunMetadata.duration_display
RunMetadataDuration ==
    /\ pc = "idle"
    /\ \E sec \in DurationArgs, tie \in Ties :
          /\ call' = [fn |-> "RunMetadata.duration_display", duration |-> sec]
          /\ Finish(Returned(RunMetadataDurationDisplay(sec, tie)))
    /\ UNCHANGED <<fs, has_h5py, h5data, entries, config, now, kernel_vars>>

\* RunMetadata.file_size_display
FileSizeDisplay ==
    /\ pc = "idle"
    /\ \E limbs \in SizeArgs :
          /\ call' = [fn |-> "file_size_display", file_size_bytes |-> limbs]
          /\ Finish(Returned(file_size_display(limbs)))
    /\ UNCHANGED <<fs, has_h5py, h5data, entries, config, now, kernel_vars>>

\* RunMetadata.count_rate_display
CountRateDisplay ==
    /\ pc = "idle"
    /\ \E c \in CountArgs, d \in RateDurations, tie \in Ties :
          /\ call' = [fn |-> "count_rate_display", total_counts |-> c, duration |-> d]
          /\ Finish(Returned(count_rate_display(c, d, tie)))
    /\ UNCHANGED <<fs, has_h5py, h5data, entries, config, now, kernel_vars>>

OverrideText ==
    <<"x">>

\* what callers put into extras: nothing, a key of their own, or a key
\* that is also the name of a field or of a display property
ExtrasArgs ==
    {NoExtras, [note |-> OverrideText], [title |-> OverrideText],
     [duration_display |-> OverrideText]}

\* RunMetadata objects: texts as character sequences, the duration as a
\* rational, the size as limbs
Objects ==
    [run_number      : {7},
     title           : {<<>>, TitleText},
     start_time      : {<<>>, StartText, NotANumber},
     end_time        : {<<>>, StartText},
     duration        : {Rational(0, 4), Rational(180, 4), Rational(14400, 4)},
     total_counts    : {0, 6000000},
     file_size_bytes : {<<0, 0, 0, 0, 0, 0>>, <<0, 0, 0, 1, 0, 0>>},
     file_path       : {<<>>},
     error           : {PyNone, ErrorText("h5py not installed", <<>>)},
     extras          : ExtrasArgs]

\* RunMetadata.to_dict()
ToDict ==
    /\ pc = "idle"
    /\ \E self \in Objects, tie \in Ties :
          /\ call' = [fn |-> "to_dict", self |-> self]
          /\ Finish(Returned(to_dict(self, tie)))
    /\ UNCHANGED <<fs, has_h5py, h5data, entries, config, now, kernel_vars>>

NextDisplay ==
    \/ ReducedRunDuration
    \/ RunMetadataDuration
    \/ FileSizeDisplay
    \/ CountRateDisplay
    \/ ToDict
    \/ Return

SpecDisplay == InitDisplay /\ [][NextDisplay]_vars

----------------------------------------------------------------------------
(* Claims on the display properties.                                        *)

Text45Sec ==
    <<"4", "5", " ", "s", "e", "c">>
Text21Min ==
    <<"2", ".", "1", " ", "m", "i", "n">>
Text20Hr ==
    <<"2", ".", "0", " ", "h", "r">>
Text10Hour ==
    <<"1", ".", "0", " ", "h", "o", "u", "r">>
Text100GB ==
    <<"1", ".", "0", "0", " ", "G", "B">>
Text3000Rate ==
    <<"3", ".", "0", "0", "0", " ", "M", "E", "/", "s">>

\* a duration_display has returned
DurationShown ==
    /\ pc = "returned"
    /\ call.fn \in {"ReducedRun.duration_display", "RunMetadata.duration_display"}

\* the unit of the longest durations
HoursUnitOf(fn) == IF fn = "ReducedRun.duration_display" THEN HrUnit ELSE HoursUnit

\* the text before the unit
NumberPart(text, unit) == SubSeq(text, 1, Len(text) - Len(unit))

AllDigits(ds) == ds # <<>> /\ \A i \in 1..Len(ds) : ds[i] \in Digits

\* digits, a point, one digit
OneDecimal(ds) ==
    /\ Len(ds) >= 3
    /\ AllDigits(SubSeq(ds, 1, Len(ds) - 2))
    /\ ds[Len(ds) - 1] = "."
    /\ ds[Len(ds)] \in Digits

\* text is a number in the form wanted, followed by the unit
ShownIn(text, unit, decimals) ==
    /\ EndsWith(text, unit)
    /\ IF decimals = 0 THEN AllDigits(NumberPart(text, unit))
       ELSE OneDecimal(NumberPart(text, unit))

\* C16: duration_display picks its unit by fixed thresholds for every
\* duration d >= 0: seconds without decimals below 60, minutes with one
\* decimal from 60 to below 3600, hours with one decimal from 3600 on
\* ("hr" on ReducedRun, "hours" on RunMetadata); 45 gives "45 sec", 125
\* gives "2.1 min", 7200 gives "2.0 hr", 3600 a text with "1.0 hour"; and
\* the number shown in seconds is always below 60.
C16_DurationThresholds ==
    DurationShown =>
       /\ RatLess(call.duration, 60) =>
             /\ ShownIn(ret, SecUnit, 0)
             /\ DecimalValue(NumberPart(ret, SecUnit)) < 60
       /\ (~RatLess(call.duration, 60) /\ RatLess(call.duration, 3600)) =>
             ShownIn(ret, MinUnit, 1)
       /\ ~RatLess(call.duration, 3600) => ShownIn(ret, HoursUnitOf(call.fn), 1)
       /\ call.duration = Rational(180, 4) => ret = Text45Sec
       /\ call.duration = Rational(500, 4) => ret = Text21Min
       /\ (call.duration = Rational(28800, 4) /\ call.fn = "ReducedRun.duration_display")
             => ret = Text20Hr
       /\ (call.duration = Rational(14400, 4) /\ call.fn = "RunMetadata.duration_display")
             => StartsWith(ret, Text10Hour)

\* the index of the most significant limb that is not zero, 1 for zero
TopLimb(limbs) ==
    LET used == {j \in 1..Len(limbs) : limbs[j] # 0}
    IN  IF used = {} THEN 1 ELSE CHOOSE j \in used : \A i \in used : i <= j

\* the smallest k with n < 1024^(k+1), capped at the index of PB
UnitIndex(limbs) == Min(TopLimb(limbs) - 1, Len(SizeUnits))

UnitName(k) == IF k = Len(SizeUnits) THEN UnitPB ELSE SizeUnits[k + 1]

\* digits, a point, two digits
TwoDecimals(ds) ==
    /\ Len(ds) >= 4
    /\ AllDigits(SubSeq(ds, 1, Len(ds) - 3))
    /\ ds[Len(ds) - 2] = "."
    /\ ds[Len(ds) - 1] \in Digits /\ ds[Len(ds)] \in Digits

\* the hundredths a two-decimal text shows
ShownHundredths(ds) ==
    100 * DecimalValue(SubSeq(ds, 1, Len(ds) - 3)) + DecimalValue(SubSeq(ds, Len(ds) - 1, Len(ds)))

\* limb sequences of equal length, compared as numbers: a <= b
RECURSIVE LimbLeq(_, _)
LimbLeq(a, b) ==
    IF a = <<>> THEN TRUE
    ELSE IF a[Len(a)] # b[Len(b)] THEN a[Len(a)] < b[Len(b)]
    ELSE LimbLeq(SubSeq(a, 1, Len(a) - 1), SubSeq(b, 1, Len(b) - 1))

\* half of 1024^k as k limbs
HalfLimbs(k) == [j \in 1..k |-> IF j = k THEN 512 ELSE 0]

\* v hundredths is 100 * n / 1024^k rounded to the nearest integer
NearestHundredths(v, limbs, k) ==
    LET m    == MulSmall(limbs, 100, 0)
        q    == LimbValue(SubSeq(m, k + 1, Len(m)))
        rest == SubSeq(m, 1, k)
    IN  \/ v = q /\ LimbLeq(rest, HalfLimbs(k))
        \/ v = q + 1 /\ LimbLeq(HalfLimbs(k), rest) /\ k > 0

\* C17: file_size_display scales a byte count n >= 0 by powers of 1024.
\* The unit is the one of B, KB, MB, GB, TB, PB whose index is the
\* smallest k with n < 1024^(k+1), capped at PB; the number is n / 1024^k
\* with two decimals; 1073741824 bytes give "1.00 GB".
C17_FileSizeScaled ==
    ReturnedFrom("file_size_display") =>
       LET limbs == call.file_size_bytes
           unit  == UnitName(UnitIndex(limbs))
       IN  /\ EndsWith(ret, unit)
           /\ TwoDecimals(NumberPart(ret, unit))
           /\ NearestHundredths(ShownHundredths(NumberPart(ret, unit)), limbs, UnitIndex(limbs))
           /\ limbs = <<0, 0, 0, 1, 0, 0>> => ret = Text100GB

\* 1073741824 bytes, and a count one byte short of 1 MB that rounds up to
\* the text "1024.00 KB"
C17_Witness ==
    /\ ReturnedFrom("file_size_display")
    /\ \/ call.file_size_bytes = <<0, 0, 0, 1, 0, 0>> /\ ret = Text100GB
       \/ call.file_size_bytes = <<1023, 1023, 0, 0, 0, 0>>

\* digits, a point, three digits
ThreeDecimals(ds) ==
    /\ Len(ds) >= 5
    /\ AllDigits(SubSeq(ds, 1, Len(ds) - 4))
    /\ ds[Len(ds) - 3] = "."
    /\ AllDigits(SubSeq(ds, Len(ds) - 2, Len(ds)))

\* the thousandths a three-decimal text shows
ShownThousandths(ds) ==
    1000 * DecimalValue(SubSeq(ds, 1, Len(ds) - 4)) + DecimalValue(SubSeq(ds, Len(ds) - 2, Len(ds)))

Abs(n) == IF n < 0 THEN 0 - n ELSE n

\* v thousandths of a million events per second is total_counts / duration
\* / 10^6 rounded to the nearest thousandth
NearestThousandths(v, total_counts, duration) ==
    2 * Abs(total_counts * duration.den - v * duration.num * 1000) <= duration.num * 1000

\* C18: count_rate_display returns "N/A" whenever duration is not strictly
\* positive, and otherwise total_counts / duration / 10^6 with three
\* decimals followed by " ME/s"; 6,000,000 counts over 2 seconds give
\* "3.000 ME/s".
C18_CountRate ==
    ReturnedFrom("count_rate_display") =>
       /\ call.duration.num <= 0 => ret = NotAvailable
       /\ call.duration.num > 0 =>
             /\ EndsWith(ret, RateUnit)
             /\ ThreeDecimals(NumberPart(ret, RateUnit))
             /\ NearestThousandths(ShownThousandths(NumberPart(ret, RateUnit)),
                                   call.total_counts, call.duration)
       /\ (call.total_counts = 6000000 /\ call.duration = Rational(8, 4)) => ret = Text3000Rate

\* counts over a duration of zero, which would divide by zero
C18_Witness ==
    /\ ReturnedFrom("count_rate_display")
    /\ call.total_counts = 6000000
    /\ call.duration = Rational(0, 4)
    /\ ret = NotAvailable

\* the names to_dict has to expose
FieldNames ==
    {"run_number", "title", "start_time", "end_time", "duration", "total_counts",
     "file_size_bytes", "file_path", "error"}

DisplayNames ==
    {"start_time_formatted", "end_time_formatted", "duration_display",
     "count_rate_display", "file_size_display"}

\* C19: to_dict exposes every field under its exact name with the field's
\* own value, for every RunMetadata, whatever keys its extras hold: the
\* nine fields and the derived display fields are present, and the value
\* under each equals the field or the derived property of the object.
C19_ToDictOwnValues ==
    ReturnedFrom("to_dict") =>
       /\ FieldNames \cup DisplayNames \subseteq DOMAIN ret
       /\ \A k \in FieldNames : ret[k] = call.self[k]
       /\ ret.start_time_formatted = format_timestamp(call.self.start_time)
       /\ ret.end_time_formatted = format_timestamp(call.self.end_time)
       /\ ret.duration_display \in
             {RunMetadataDurationDisplay(call.self.duration, tie) : tie \in Ties}
       /\ ret.count_rate_display \in
             {count_rate_display(call.self.total_counts, call.self.duration, tie) : tie \in Ties}
       /\ ret.file_size_display = file_size_display(call.self.file_size_bytes)

----------------------------------------------------------------------------
(* models.py and routes/entries.py: the notebook's entries, its             *)
(* configuration row, and the requests that create, edit and list them.     *)
(* Every request runs to its commit in one step.                            *)

\* Entry.TYPE_TEXT and Entry.TYPE_HEADER
TYPE_TEXT == "text"

TYPE_HEADER == "header"

\* a value of a DateTime column: a reading of the clock
PyDatetime(n) == [t |-> "datetime", v |-> n]

LowerLetters ==
    <<"a", "b", "c", "d", "e", "f", "g", "h", "i", "j", "k", "l", "m",
      "n", "o", "p", "q", "r", "s", "t", "u", "v", "w", "x", "y", "z">>

UpperLetters ==
    <<"A", "B", "C", "D", "E", "F", "G", "H", "I", "J", "K", "L", "M",
      "N", "O", "P", "Q", "R", "S", "T", "U", "V", "W", "X", "Y", "Z">>

\* str.upper()
Upper(s) ==
    [i \in 1..Len(s) |->
        IF \E k \in 1..Len(LowerLetters) : LowerLetters[k] = s[i]
        THEN UpperLetters[CHOOSE k \in 1..Len(LowerLetters) : LowerLetters[k] = s[i]]
        ELSE s[i]]

\* str.replace(old, ""): every occurrence of old, left to right, removed
RECURSIVE Removed(_, _)
Removed(s, old) ==
    IF s = <<>> THEN <<>>
    ELSE IF StartsWith(s, old) THEN Removed(SubSeq(s, Len(old) + 1, Len(s)), old)
    ELSE <<Head(s)>> \o Removed(Tail(s), old)

\* str.isdigit()
isdigit(s) == s # <<>> /\ \A i \in 1..Len(s) : s[i] \in Digits

\* request.form.get(...).strip() or None
StrippedOrNone(text) == IF Strip(text) = <<>> THEN PyNone ELSE PyStr(Lit(Strip(text)))

\* Entry(type=..., title=..., body=...) once committed: the next id, the
\* column defaults of created_at and edited_at
NewEntry(type, title, body) ==
    [id         |-> Len(entries) + 1,
     type       |-> type,
     title      |-> title,
     body       |-> body,
     created_at |-> PyDatetime(now),
     edited_at  |-> PyNone]

\* Entry.is_edited
is_edited(entry) == entry.edited_at # PyNone

\* NotebookConfig(): ipts and title are nullable and have no default
NewConfig == [ipts |-> NoIpts, title |-> PyNone, updated_at |-> PyNone]

\* the table after NotebookConfig.get_config(): a row is added to an
\* empty table
ConfigTable == IF config = <<>> THEN <<NewConfig>> ELSE config

\* NotebookConfig.get_config(): cls.query.first()
get_config == ConfigTable[1]

\* NotebookConfig.is_configured
is_configured(row) == row.ipts # NoIpts /\ Strip(row.ipts) # <<>>

\* get_run_metadata(run_number, ipts) with the file read as soon as found
get_run_metadata(run_number, ipts, located) ==
    IF find_nexus_file(run_number, ipts, located) = NoPath
    THEN NotLocated(run_number, ipts)
    ELSE get_run_metadata_from_file(find_nexus_file(run_number, ipts, located))

\* f"Run {run_number}: {metadata.title}"
HeaderTitle(run_number, metadata) ==
    PyStr([fmt |-> "Run {run_number}: {metadata.title}",
           args |-> <<run_number, metadata.title>>])

\* json.dumps(metadata.to_dict()): the text that serialises the object
HeaderBody(metadata) == PyStr([dumps |-> metadata])

\* redirect(url_for(endpoint)) and render_template(template, ...)
Redirect(endpoint) == <<"redirect", endpoint>>

Render(template) == <<"render", template>>

\* the rows of ORDER BY created_at ASC: any arrangement of the ids in
\* which created_at never decreases; rows of equal created_at come in
\* whatever order the database produces
Orderings ==
    {order \in [1..Len(entries) -> 1..Len(entries)] :
        /\ \A i, j \in 1..Len(entries) : i # j => order[i] # order[j]
        /\ \A i, j \in 1..Len(entries) :
              i < j => entries[order[i]].created_at.v <= entries[order[j]].created_at.v}

----------------------------------------------------------------------------
(* The requests.                                                            *)

\* the ids the table gives out
EntryIds == {1, 2}

\* what the clock reads
ClockReadings == {0, 1}

\* request.form "body" of a create request
BodyArgs == {<<" ">>, <<" ", "b">>}

\* request.form "body" of an edit request
EditBodyArgs == {<<" ">>, <<"a", " ">>}

\* request.form "title"
TitleArgs == {<<>>, <<"t">>}

\* request.form "notebook_title"
NotebookTitleArgs == {<<>>}

\* request.form "run_number"
RunNumberArgs == {<<>>, <<"x">>, <<"7">>, <<" ", "8">>, <<"9">>}

\* request.method of the edit route
Methods == {"GET", "POST"}

\* request.form "ipts"
SetupArgs == {<<>>, <<"x">>, <<"i", "p", "t", "s", "-", "1">>, <<"3">>}

\* two experiment folders; in the first the raw file of run 7 and a file
\* for run 9 that is no HDF5 file
EntriesTree ==
    Tree(IptsDirs(IPTS) \cup IptsDirs(IPTS2), {NativePath(<<IPTS>>, 7), NativePath(<<IPTS>>, 9)})

InitEntries ==
    /\ pc = "idle" /\ call = NoCall /\ ret = <<>> /\ exc = ""
    /\ entries = <<>> /\ config = <<>> /\ now = 0
    /\ NoKernel
    /\ fs = EntriesTree
    /\ has_h5py = TRUE
    /\ h5data = [p \in fs.files |-> IF p = NativePath(<<IPTS>>, 9) THEN Unopenable
                                     ELSE DefaultRawContainer]

\* index(), lines 30-35
Index ==
    /\ pc = "idle"
    /\ config' = ConfigTable
    /\ \E order \in Orderings :
          /\ call' = [fn |-> "index"]
          /\ ret' = order
    /\ UNCHANGED <<fs, has_h5py, h5data, pc, exc, entries, now, kernel_vars>>

\* create_text without the test of line 44: the entry is added whatever
\* the body
CreateTextUnguarded(body, title) ==
    /\ pc = "idle"
    /\ Len(entries) + 1 \in EntryIds
    /\ call' = [fn |-> "create_text"]
    /\ entries' = Append(entries, NewEntry(TYPE_TEXT, StrippedOrNone(title),
                                           PyStr(Lit(Strip(body)))))
    /\ ret' = Redirect("entries.index")
    /\ UNCHANGED <<fs, has_h5py, h5data, pc, exc, config, now, kernel_vars>>

\* create_text(), lines 38-49, on the form values body and title
CreateTextRequest(body, title) ==
    /\ pc = "idle"
    /\ Len(entries) + 1 \in EntryIds
    /\ call' = [fn |-> "create_text"]
    /\ entries' = IF Strip(body) # <<>>
                  THEN Append(entries, NewEntry(TYPE_TEXT, StrippedOrNone(title),
                                                PyStr(Lit(Strip(body)))))
                  ELSE entries
    /\ ret' = Redirect("entries.index")
    /\ UNCHANGED <<fs, has_h5py, h5data, pc, exc, config, now, kernel_vars>>

CreateText == \E body \in BodyArgs, title \in TitleArgs : CreateTextRequest(body, title)

\* setup_notebook(), lines 52-86
SetupNotebook ==
    /\ pc = "idle"
    /\ \E ipts \in SetupArgs, notebook_title \in NotebookTitleArgs :
          LET ipts_str == Strip(Removed(Upper(Strip(ipts)), IptsPrefix))
          IN  /\ call' = [fn |-> "setup_notebook"]
              /\ config' = IF /\ Strip(ipts) # <<>>
                              /\ isdigit(ipts_str)
                              /\ Exists(<<IptsPrefix \o ipts_str>>)
                           THEN <<[get_config EXCEPT !.ipts = IptsPrefix \o ipts_str,
                                                     !.title = StrippedOrNone(notebook_title),
                                                     !.updated_at = PyDatetime(now)]>>
                                   \o Tail(ConfigTable)
                           ELSE config
    /\ ret' = Redirect("entries.index")
    /\ UNCHANGED <<fs, has_h5py, h5data, pc, exc, entries, now, kernel_vars>>

\* create_header without the test of lines 113-116: the entry is made from
\* whatever the lookup returned
CreateHeaderUnchecked(run_number_str, located) ==
    LET run_number == int(run_number_str).val
        metadata   == get_run_metadata(run_number, get_config.ipts, located)
        resolved   == /\ is_configured(get_config)
                      /\ Strip(run_number_str) # <<>>
                      /\ int(run_number_str).ok
    IN  /\ pc = "idle"
        /\ Len(entries) + 1 \in EntryIds
        /\ config' = ConfigTable
        /\ call' = [fn |-> "create_header"]
        /\ entries' = IF resolved
                      THEN Append(entries,
                                  NewEntry(TYPE_HEADER, HeaderTitle(run_number, metadata),
                                           HeaderBody(metadata)))
                      ELSE entries
        /\ ret' = IF resolved THEN Redirect("entries.index")
                  ELSE Redirect("entries.index?tab=header")
        /\ UNCHANGED <<fs, has_h5py, h5data, pc, exc, now, kernel_vars>>

\* create_header(), lines 89-128, on the form value run_number; located is
\* what finddata reports
CreateHeaderRequest(run_number_str, located) ==
    LET run_number == int(run_number_str).val
        metadata   == get_run_metadata(run_number, get_config.ipts, located)
        resolved   == /\ is_configured(get_config)
                      /\ Strip(run_number_str) # <<>>
                      /\ int(run_number_str).ok
                      /\ metadata.error = PyNone
    IN  /\ pc = "idle"
        /\ Len(entries) + 1 \in EntryIds
        /\ config' = ConfigTable
        /\ call' = [fn |-> "create_header"]
        /\ entries' = IF resolved
                      THEN Append(entries,
                                  NewEntry(TYPE_HEADER, HeaderTitle(run_number, metadata),
                                           HeaderBody(metadata)))
                      ELSE entries
        /\ ret' = IF resolved THEN Redirect("entries.index")
                  ELSE Redirect("entries.index?tab=header")
        /\ UNCHANGED <<fs, has_h5py, h5data, pc, exc, now, kernel_vars>>

CreateHeader ==
    \E run_number_str \in RunNumberArgs, located \in Locations :
        CreateHeaderRequest(run_number_str, located)

\* edit without the test of lines 497-499: a header entry is edited like
\* any other
EditAnyType(entry_id, method, body, title) ==
    /\ pc = "idle"
    /\ call' = [fn |-> "edit", entry_id |-> entry_id]
    /\ entries' = IF method = "POST" /\ Strip(body) # <<>>
                  THEN [entries EXCEPT ![entry_id].title = StrippedOrNone(title),
                                       ![entry_id].body = PyStr(Lit(Strip(body))),
                                       ![entry_id].edited_at = PyDatetime(now)]
                  ELSE entries
    /\ ret' = IF method = "POST" THEN Redirect("entries.index")
              ELSE Render("entries/edit.html")
    /\ UNCHANGED <<fs, has_h5py, h5data, pc, exc, config, now, kernel_vars>>

\* edit without the call of mark_edited, line 508
EditUnmarked(entry_id, method, body, title) ==
    /\ pc = "idle"
    /\ call' = [fn |-> "edit", entry_id |-> entry_id]
    /\ entries' = IF /\ entries[entry_id].type # TYPE_HEADER
                     /\ method = "POST"
                     /\ Strip(body) # <<>>
                  THEN [entries EXCEPT ![entry_id].title = StrippedOrNone(title),
                                       ![entry_id].body = PyStr(Lit(Strip(body)))]
                  ELSE entries
    /\ ret' = IF entries[entry_id].type = TYPE_HEADER \/ method = "POST"
              THEN Redirect("entries.index")
              ELSE Render("entries/edit.html")
    /\ UNCHANGED <<fs, has_h5py, h5data, pc, exc, config, now, kernel_vars>>

\* edit(entry_id), lines 492-514, on the request method and the form values
\* body and title; an id that is not in the table is the 404 of get_or_404
EditRequest(entry_id, method, body, title) ==
    /\ pc = "idle"
    /\ call' = [fn |-> "edit", entry_id |-> entry_id]
    /\ entries' = IF /\ entries[entry_id].type # TYPE_HEADER
                     /\ method = "POST"
                     /\ Strip(body) # <<>>
                  THEN [entries EXCEPT ![entry_id].title = StrippedOrNone(title),
                                       ![entry_id].body = PyStr(Lit(Strip(body))),
                                       ![entry_id].edited_at = PyDatetime(now)]
                  ELSE entries
    /\ ret' = IF entries[entry_id].type = TYPE_HEADER \/ method = "POST"
              THEN Redirect("entries.index")
              ELSE Render("entries/edit.html")
    /\ UNCHANGED <<fs, has_h5py, h5data, pc, exc, config, now, kernel_vars>>

Edit ==
    \E entry_id \in 1..Len(entries), method \in Methods, body \in EditBodyArgs,
       title \in TitleArgs :
        EditRequest(entry_id, method, body, title)

\* api_reset_timeline(), lines 185-204: every entry is deleted
ResetTimeline ==
    /\ pc = "idle"
    /\ call' = [fn |-> "api_reset_timeline"]
    /\ entries' = <<>>
    /\ ret' = <<"json", Len(entries)>>
    /\ UNCHANGED <<fs, has_h5py, h5data, pc, exc, config, now, kernel_vars>>

\* time passes between two requests
Tick ==
    /\ now + 1 \in ClockReadings
    /\ now' = now + 1
    /\ UNCHANGED <<fs, has_h5py, h5data, pc, call, ret, exc, entries, config,
                   kernel_vars>>

\* the system clock is stepped back (datetime.now reads the wall clock)
ClockSetBack ==
    /\ \E earlier \in {t \in ClockReadings : t < now} : now' = earlier
    /\ UNCHANGED <<fs, has_h5py, h5data, pc, call, ret, exc, entries, config,
                   kernel_vars>>

NextEntries ==
    \/ Index
    \/ CreateText
    \/ SetupNotebook
    \/ CreateHeader
    \/ Edit
    \/ ResetTimeline
    \/ Tick
    \/ ClockSetBack

SpecEntries == InitEntries /\ [][NextEntries]_vars

----------------------------------------------------------------------------
(* The kernel manager (services/kernel.py).  The threads of the server call *)
(* the methods of the one KernelManager, which talks to a kernel subprocess *)
(* over its stdin and stdout, one JSON line per command and per response.   *)
(* A step of a thread is one access to what the threads share (an attribute *)
(* of the manager, a lock, a pipe); the local work that follows, up to the  *)
(* next such access, belongs to the same step.  A position is named after   *)
(* the line of kernel.py whose access comes next.                           *)

data_vars == <<fs, has_h5py, h5data, pc, call, ret, exc, entries, config, now>>
class_vars == <<_instance, _lock, _kernel_manager, _initialized, init_runs>>

\* the threads that serve requests at the same time
Threads == {1, 2}

\* the pids the operating system hands out: Popen fails once they are used
Pids == {1, 2}

\* execute is called while self._executions_count is one of these
ExecutionCounts == {0, 1}

\* the names passed to delete_workspace
WorkspaceNames == {"", "w"}

\* the public methods called, lines 127, 325, 347, 379, 445, 466, 477, 501
KernelMethods ==
    {"start", "stop", "restart", "execute", "get_workspaces", "get_variables",
     "delete_workspace", "get_memory_info"}

\* the methods each thread calls: one runs cells and looks at workspaces,
\* the other also manages the kernel
MethodsOf ==
    <<{"execute", "get_workspaces", "delete_workspace"},
      {"execute", "get_variables", "get_memory_info", "start", "stop",
       "restart"}>>

\* lines 394, 450, 471, 490, 512, 332: the 'action' each method sends
ActionOf ==
    [execute |-> "execute", get_workspaces |-> "workspaces",
     get_variables |-> "variables", delete_workspace |-> "delete_workspace",
     get_memory_info |-> "memory", stop |-> "shutdown", restart |-> "shutdown",
     start |-> ""]

\* lines 365-366: the line written to the kernel's stdin.  caller is not in
\* the JSON: it records which thread wrote the line.
Command(action, t) == [action |-> action, caller |-> t]

\* lines 278-314: the 'type' of the response the main loop prints for an action
ReplyType ==
    [execute |-> "result", workspaces |-> "workspaces",
     variables |-> "variables", memory |-> "memory",
     delete_workspace |-> "deleted", shutdown |-> "shutdown"]

\* lines 278-314: the line the main loop prints for one command
Response(cmd) == [type |-> ReplyType[cmd.action], caller |-> cmd.caller]

\* _send_command returning None
NoResponse == [type |-> "None", caller |-> 0]

\* lines 138-145: a subprocess just started, its pipes empty
NewProcess == [running |-> TRUE, stdin |-> <<>>, stdout |-> <<>>]

\* a thread outside every method of the manager
IdleThread ==
    [pc |-> "idle", fn |-> "", arg |-> "", stack |-> <<>>, cmd |-> "",
     alive |-> FALSE, started |-> FALSE, result |-> NoResponse, pipe |-> 0,
     count |-> 0, obj |-> 0]

\* the call of a thread is over: it returned ("idle"), or an exception left
\* it ("raised")
Done(rec, out) == [IdleThread EXCEPT !.pc = out]

\* a call of the function at label, to come back at return_to
Enter(rec, label, return_to) ==
    [rec EXCEPT !.pc = label, !.stack = return_to \o @]

\* the handler of the try statement around a call: lines 393/422 in execute,
\* lines 330/338 in stop
Handler == [execute_394 |-> "execute_422", execute_399 |-> "execute_422",
            stop_332 |-> "stop_341"]

\* the innermost handler of the frames on a stack, and the frames below it
RECURSIVE Unwind(_)
Unwind(stack) ==
    IF stack = <<>> THEN [handler |-> "", stack |-> <<>>]
    ELSE IF Head(stack) \in DOMAIN Handler
         THEN [handler |-> Handler[Head(stack)], stack |-> Tail(stack)]
         ELSE Unwind(Tail(stack))

\* the local work of a thread that has come back to a position, up to its
\* next access to what is shared
RECURSIVE Settle(_)
Settle(rec) ==
    CASE rec.pc \in {"idle", "raised"} -> rec
      \* line 360-361: _send_command returns None when the kernel is not alive
      [] rec.pc = "send_360" /\ ~rec.alive ->
            Settle([rec EXCEPT !.result = NoResponse,
                               !.pc = Head(rec.stack), !.stack = Tail(@)])
      \* lines 382-383: execute starts the kernel when it is not alive
      [] rec.pc = "execute_382" /\ ~rec.alive ->
            Enter(rec, "start_129", <<"execute_383">>)
      \* lines 383-388: start() failed, execute returns
      [] rec.pc = "execute_383" /\ ~rec.started -> Done(rec, "idle")
      \* lines 397-399: no response, so execute asks whether the kernel lives
      [] rec.pc = "execute_394" /\ rec.result = NoResponse ->
            Enter([rec EXCEPT !.alive = FALSE], "is_alive",
                  <<"execute_399">>)
      \* lines 422-423: the handler asks whether the kernel lives
      [] rec.pc = "execute_422" ->
            Enter([rec EXCEPT !.alive = FALSE, !.result = NoResponse,
                               !.count = 0],
                  "is_alive", <<"execute_423">>)
      \* lines 447-448, 468-469, 484-488, 511: not alive, or no name
      [] rec.pc = "query_447" ->
            IF ~rec.alive \/ (rec.fn = "delete_workspace" /\ rec.arg = "")
            THEN Done(rec, "idle")
            ELSE Enter([rec EXCEPT !.alive = FALSE, !.arg = ""], "is_alive",
                       <<"send_360", "query_450">>)
      \* line 125 ends __init__, and KernelManager() gives the object
      [] rec.pc = "init_125" ->
            IF rec.stack = <<>> THEN [IdleThread EXCEPT !.obj = rec.obj]
            ELSE Settle([rec EXCEPT !.pc = Head(rec.stack), !.stack = Tail(@)])
      \* line 333 follows line 332 whatever _send_command returned
      [] rec.pc = "stop_332" ->
            [rec EXCEPT !.pc = "stop_333", !.result = NoResponse,
                        !.alive = FALSE]
      \* lines 349-350: restart is stop, then what start returns
      [] rec.pc = "restart_349" -> [rec EXCEPT !.pc = "start_129"]
      [] OTHER -> rec

\* return from the function a thread is in: to the caller's position, or out
\* of the method
Back(rec) ==
    IF rec.stack = <<>> THEN Done(rec, "idle")
    ELSE Settle([rec EXCEPT !.pc = Head(rec.stack), !.stack = Tail(@)])

\* an exception raised in the function a thread is in
Raise(rec) ==
    LET u == Unwind(rec.stack)
    IN  IF u.handler = "" THEN Done(rec, "raised")
        ELSE Settle([rec EXCEPT !.pc = u.handler, !.stack = u.stack])

\* line 381: the with statement gives self._exec_lock back when the thread
\* leaves execute, by return or by exception
Released(t, rec) ==
    IF rec.pc \in {"idle", "raised"} /\ _exec_lock = t THEN Free
    ELSE _exec_lock

\* KernelManager.get_status(), lines 431-443, as a function of the state
get_status ==
    LET alive == _process # NoProcess /\ procs[_process].running
    IN  [state |-> IF alive THEN _state ELSE "dead",
         pid |-> _process,
         executions_count |-> _executions_count]

\* after get_kernel_manager() has constructed the manager and its __init__
\* has started the kernel
InitKernel ==
    /\ pc = "idle" /\ call = NoCall /\ ret = <<>> /\ exc = ""
    /\ entries = <<>> /\ config = <<>> /\ now = 0
    /\ fs = Tree({}, {}) /\ has_h5py = TRUE /\ h5data = <<>>
    /\ _instance = 1 /\ _lock = Free /\ _kernel_manager = 1
    /\ _initialized = "True" /\ init_runs = 1
    /\ _process = 1 /\ _state = "idle" /\ _executions_count = 0
    /\ _exec_lock = Free /\ answered = 0
    /\ procs = <<NewProcess>>
    /\ threads = [t \in Threads |-> IdleThread]

\* lines 268-322: one turn of the kernel's main loop; after 'shutdown' the
\* loop breaks and the process ends
KernelServe(p) ==
    /\ p \in DOMAIN procs
    /\ procs[p].running /\ procs[p].stdin # <<>>
    /\ LET cmd == Head(procs[p].stdin)
       IN  procs' = [procs EXCEPT ![p] =
                        [running |-> cmd.action # "shutdown",
                         stdin |-> IF cmd.action = "shutdown" THEN <<>>
                                   ELSE Tail(@.stdin),
                         stdout |-> Append(@.stdout, Response(cmd))]]
    /\ UNCHANGED <<data_vars, class_vars, _process, _state, _executions_count,
                   _exec_lock, threads, answered>>

\* lines 241-266 and 278-281: the code of an 'execute' ends the subprocess
\* (exit(), a crash): no response is printed, and poll() is not None from
\* then on.  What is left in the stdin of an ended subprocess is never read.
KernelExit(p) ==
    /\ p \in DOMAIN procs
    /\ procs[p].running /\ procs[p].stdin # <<>>
    /\ Head(procs[p].stdin).action = "execute"
    /\ procs' = [procs EXCEPT ![p].running = FALSE, ![p].stdin = <<>>]
    /\ UNCHANGED <<data_vars, class_vars, _process, _state, _executions_count,
                   _exec_lock, threads, answered>>

\* a thread calls a method of the manager
Call(t, fn, arg) ==
    /\ threads[t].pc \in {"idle", "raised"}
    /\ fn \in MethodsOf[t]
    /\ fn = "execute" => _executions_count \in ExecutionCounts
    /\ arg # "" => fn = "delete_workspace"
    /\ LET rec == [IdleThread EXCEPT !.fn = fn, !.arg = arg, !.cmd = ActionOf[fn]]
       IN  threads' = [threads EXCEPT ![t] =
              CASE fn = "execute" -> [rec EXCEPT !.pc = "execute_381"]
                [] fn = "start" -> [rec EXCEPT !.pc = "start_129"]
                [] fn = "stop" -> [rec EXCEPT !.pc = "stop_327"]
                [] fn = "restart" -> Enter(rec, "stop_327", <<"restart_349">>)
                [] OTHER -> Enter(rec, "is_alive", <<"query_447">>)]
    /\ UNCHANGED <<data_vars, class_vars, _process, _state, _executions_count,
                   _exec_lock, procs, answered>>

\* is_alive, line 354: self._process is None
IsAlive(t) ==
    LET rec == threads[t]
        next == IF _process = NoProcess THEN Back([rec EXCEPT !.alive = FALSE])
                ELSE [rec EXCEPT !.pc = "is_alive_356"]
    IN  /\ rec.pc = "is_alive"
        /\ threads' = [threads EXCEPT ![t] = next]
        /\ _exec_lock' = Released(t, next)
        /\ UNCHANGED <<data_vars, class_vars, _process, _state,
                       _executions_count, procs, answered>>

\* is_alive, line 356: self._process.poll() is None; an AttributeError when
\* self._process has become None since line 354
IsAlivePoll(t) ==
    LET rec == threads[t]
        next == IF _process = NoProcess THEN Raise(rec)
                ELSE Back([rec EXCEPT !.alive = procs[_process].running])
    IN  /\ rec.pc = "is_alive_356"
        /\ threads' = [threads EXCEPT ![t] = next]
        /\ _exec_lock' = Released(t, next)
        /\ UNCHANGED <<data_vars, class_vars, _process, _state,
                       _executions_count, procs, answered>>

\* start, line 129: self._process is not None
Start129(t) ==
    LET rec == threads[t]
    IN  /\ rec.pc = "start_129"
        /\ threads' = [threads EXCEPT ![t] =
              [rec EXCEPT !.pc = IF _process = NoProcess THEN "start_132"
                                 ELSE "start_129_poll"]]
        /\ UNCHANGED <<data_vars, class_vars, _process, _state,
                       _executions_count, _exec_lock, procs, answered>>

\* start, lines 129-130: self._process.poll() is None, already running
Start129Poll(t) ==
    LET rec == threads[t]
        next == IF _process = NoProcess THEN Raise(rec)
                ELSE IF procs[_process].running
                     THEN Back([rec EXCEPT !.started = TRUE])
                     ELSE [rec EXCEPT !.pc = "start_132"]
    IN  /\ rec.pc = "start_129_poll"
        /\ threads' = [threads EXCEPT ![t] = next]
        /\ _exec_lock' = Released(t, next)
        /\ UNCHANGED <<data_vars, class_vars, _process, _state,
                       _executions_count, procs, answered>>

\* start, line 132
Start132(t) ==
    /\ threads[t].pc = "start_132"
    /\ _state' = "starting"
    /\ threads' = [threads EXCEPT ![t].pc = "start_138"]
    /\ UNCHANGED <<data_vars, class_vars, _process, _executions_count,
                   _exec_lock, procs, answered>>

\* start, lines 138-145: Popen starts a subprocess
StartPopen(t) ==
    /\ threads[t].pc = "start_138"
    /\ Len(procs) < Cardinality(Pids)
    /\ procs' = Append(procs, NewProcess)
    /\ _process' = Len(procs) + 1
    /\ threads' = [threads EXCEPT ![t].pc = "start_147"]
    /\ UNCHANGED <<data_vars, class_vars, _state, _executions_count,
                   _exec_lock, answered>>

\* start, lines 138 and 151-154: Popen raises; execute, lines 383-388, then
\* returns
StartPopenFails(t) ==
    LET rec == threads[t]
        next == Back([rec EXCEPT !.started = FALSE])
    IN  /\ rec.pc = "start_138"
        /\ _state' = "dead"
        /\ threads' = [threads EXCEPT ![t] = next]
        /\ _exec_lock' = Released(t, next)
        /\ UNCHANGED <<data_vars, class_vars, _process, _executions_count,
                       procs, answered>>

\* start, lines 146-147
Start147(t) ==
    /\ threads[t].pc = "start_147"
    /\ _state' = "idle"
    /\ threads' = [threads EXCEPT ![t].pc = "start_148"]
    /\ UNCHANGED <<data_vars, class_vars, _process, _executions_count,
                   _exec_lock, procs, answered>>

\* start, lines 148-150
Start148(t) ==
    LET rec == threads[t]
    IN  /\ rec.pc = "start_148"
        /\ _executions_count' = 0
        /\ answered' = 0
        /\ threads' = [threads EXCEPT ![t] = Back([rec EXCEPT !.started = TRUE])]
        /\ UNCHANGED <<data_vars, class_vars, _process, _state, _exec_lock,
                       procs>>

\* stop, lines 327-328 and 332
Stop327(t) ==
    LET rec == threads[t]
    IN  /\ rec.pc = "stop_327"
        /\ threads' = [threads EXCEPT ![t] =
              IF _process = NoProcess THEN Back(rec)
              ELSE Enter([rec EXCEPT !.cmd = "shutdown"], "is_alive",
                         <<"send_360", "stop_332">>)]
        /\ UNCHANGED <<data_vars, class_vars, _process, _state,
                       _executions_count, _exec_lock, procs, answered>>

\* stop, lines 333-339: wait for the subprocess to end, kill it after five
\* seconds; an AttributeError, passed over, when self._process is None
Stop333(t) ==
    /\ threads[t].pc = "stop_333"
    /\ procs' = IF _process = NoProcess THEN procs
                ELSE [procs EXCEPT ![_process].running = FALSE,
                                   ![_process].stdin = <<>>]
    /\ threads' = [threads EXCEPT ![t].pc = "stop_341"]
    /\ UNCHANGED <<data_vars, class_vars, _process, _state, _executions_count,
                   _exec_lock, answered>>

\* stop, line 341
Stop341(t) ==
    /\ threads[t].pc = "stop_341"
    /\ _process' = NoProcess
    /\ threads' = [threads EXCEPT ![t].pc = "stop_342"]
    /\ UNCHANGED <<data_vars, class_vars, _state, _executions_count,
                   _exec_lock, procs, answered>>

\* stop, lines 342-345
Stop342(t) ==
    LET rec == threads[t]
    IN  /\ rec.pc = "stop_342"
        /\ _state' = "dead"
        /\ threads' = [threads EXCEPT ![t] = Back(rec)]
        /\ UNCHANGED <<data_vars, class_vars, _process, _executions_count,
                       _exec_lock, procs, answered>>

\* _send_command, lines 365-366: write the command and flush; an exception,
\* caught at line 375, when self._process is None or the pipe is broken
SendWrite(t) ==
    LET rec == threads[t]
        broken == _process = NoProcess \/ ~procs[_process].running
    IN  /\ rec.pc = "send_360"
        /\ threads' = [threads EXCEPT ![t] =
              IF broken
              THEN Back([rec EXCEPT !.result = NoResponse, !.alive = FALSE])
              ELSE [rec EXCEPT !.pc = "send_371", !.alive = FALSE]]
        /\ procs' = IF broken THEN procs
                    ELSE [procs EXCEPT ![_process].stdin =
                              Append(@, Command(rec.cmd, t))]
        /\ UNCHANGED <<data_vars, class_vars, _process, _state,
                       _executions_count, _exec_lock, answered>>

\* what readline() on the stdout of subprocess p gives a thread: a line, the
\* end of the file once the subprocess has ended, or nothing yet
ReadLine(t, rec, p) ==
    /\ procs[p].stdout # <<>> \/ ~procs[p].running
    /\ threads' = [threads EXCEPT ![t] =
          Back([rec EXCEPT !.pipe = 0, !.result =
                    IF procs[p].stdout # <<>> THEN Head(procs[p].stdout)
                    ELSE NoResponse])]
    /\ procs' = IF procs[p].stdout # <<>>
                THEN [procs EXCEPT ![p].stdout = Tail(@)]
                ELSE procs

\* _send_command, lines 371-374: self._process.stdout.readline() is called on
\* the pipe of the subprocess self._process names at that moment
SendRead(t) ==
    LET rec == threads[t]
    IN  /\ rec.pc = "send_371"
        /\ \/ /\ _process = NoProcess
              /\ threads' = [threads EXCEPT ![t] =
                                Back([rec EXCEPT !.result = NoResponse])]
              /\ procs' = procs
           \/ /\ _process # NoProcess
              /\ ReadLine(t, rec, _process)
           \/ /\ _process # NoProcess
              /\ procs[_process].stdout = <<>> /\ procs[_process].running
              /\ threads' = [threads EXCEPT ![t] =
                                [rec EXCEPT !.pc = "readline", !.pipe = _process]]
              /\ procs' = procs
        /\ UNCHANGED <<data_vars, class_vars, _process, _state,
                       _executions_count, _exec_lock, answered>>

\* _send_command, lines 371-374: the readline() that had to wait returns
SendReadLate(t) ==
    LET rec == threads[t]
    IN  /\ rec.pc = "readline"
        /\ ReadLine(t, rec, rec.pipe)
        /\ UNCHANGED <<data_vars, class_vars, _process, _state,
                       _executions_count, _exec_lock, answered>>

\* execute, lines 381-382: take self._exec_lock
ExecuteLock(t) ==
    LET rec == threads[t]
    IN  /\ rec.pc = "execute_381"
        /\ _exec_lock = Free
        /\ _exec_lock' = t
        /\ threads' = [threads EXCEPT ![t] =
                          Enter(rec, "is_alive", <<"execute_382">>)]
        /\ UNCHANGED <<data_vars, class_vars, _process, _state,
                       _executions_count, procs, answered>>

\* execute, lines 390-394
ExecuteBusy(t) ==
    LET rec == threads[t]
    IN  /\ \/ rec.pc = "execute_382" /\ rec.alive
           \/ rec.pc = "execute_383" /\ rec.started
        /\ _state' = "busy"
        /\ threads' = [threads EXCEPT ![t] =
              [rec EXCEPT !.pc = "is_alive", !.alive = FALSE,
                          !.started = FALSE,
                          !.stack = <<"send_360", "execute_394">>]]
        /\ UNCHANGED <<data_vars, class_vars, _process, _executions_count,
                       _exec_lock, procs, answered>>

\* execute without line 399: no response, and the state is left as it is
ExecuteLeavesState(t) ==
    LET rec == threads[t]
    IN  /\ rec.pc = "execute_399"
        /\ _exec_lock' = Free
        /\ threads' = [threads EXCEPT ![t] = Done(rec, "idle")]
        /\ UNCHANGED <<data_vars, class_vars, _process, _state,
                       _executions_count, procs, answered>>

\* execute, line 399: no response
ExecuteNoResponse(t) ==
    LET rec == threads[t]
    IN  /\ rec.pc = "execute_399"
        /\ _state' = IF rec.alive THEN "idle" ELSE "dead"
        /\ _exec_lock' = Free
        /\ threads' = [threads EXCEPT ![t] = Done(rec, "idle")]
        /\ UNCHANGED <<data_vars, class_vars, _process, _executions_count,
                       procs, answered>>

\* execute, line 407: self._executions_count += 1 reads the attribute
ExecuteCountLoad(t) ==
    LET rec == threads[t]
    IN  /\ rec.pc = "execute_394"
        /\ threads' = [threads EXCEPT ![t] =
              [rec EXCEPT !.pc = "execute_407", !.result = NoResponse,
                          !.count = _executions_count]]
        /\ UNCHANGED <<data_vars, class_vars, _process, _state,
                       _executions_count, _exec_lock, procs, answered>>

\* execute, line 407: self._executions_count += 1 stores the sum
ExecuteCountStore(t) ==
    LET rec == threads[t]
    IN  /\ rec.pc = "execute_407"
        /\ _executions_count' = rec.count + 1
        /\ answered' = answered + 1
        /\ threads' = [threads EXCEPT ![t] =
              [rec EXCEPT !.pc = "execute_409", !.count = 0]]
        /\ UNCHANGED <<data_vars, class_vars, _process, _state, _exec_lock,
                       procs>>

\* execute, lines 409-421: the response is returned
ExecuteIdle(t) ==
    LET rec == threads[t]
    IN  /\ rec.pc = "execute_409"
        /\ _state' = "idle"
        /\ _exec_lock' = Free
        /\ threads' = [threads EXCEPT ![t] = Done(rec, "idle")]
        /\ UNCHANGED <<data_vars, class_vars, _process, _executions_count,
                       procs, answered>>

\* execute, lines 422-429: the handler of an exception
ExecuteExcept(t) ==
    LET rec == threads[t]
    IN  /\ rec.pc = "execute_423"
        /\ _state' = IF rec.alive THEN "idle" ELSE "dead"
        /\ _exec_lock' = Free
        /\ threads' = [threads EXCEPT ![t] = Done(rec, "idle")]
        /\ UNCHANGED <<data_vars, class_vars, _process, _executions_count,
                       procs, answered>>

\* get_workspaces, get_variables, delete_workspace, get_memory_info: lines
\* 451-464, 472-475, 491-499, 513-527, the value made of the response
QueryReturn(t) ==
    LET rec == threads[t]
    IN  /\ rec.pc = "query_450"
        /\ threads' = [threads EXCEPT ![t] = Done(rec, "idle")]
        /\ UNCHANGED <<data_vars, class_vars, _process, _state,
                       _executions_count, _exec_lock, procs, answered>>

NextKernel ==
    \/ \E p \in Pids : KernelServe(p)
    \/ \E p \in Pids : KernelExit(p)
    \/ \E t \in Threads, fn \in KernelMethods, arg \in WorkspaceNames :
          Call(t, fn, arg)
    \/ \E t \in Threads : IsAlive(t)
    \/ \E t \in Threads : IsAlivePoll(t)
    \/ \E t \in Threads : Start129(t)
    \/ \E t \in Threads : Start129Poll(t)
    \/ \E t \in Threads : Start132(t)
    \/ \E t \in Threads : StartPopen(t)
    \/ \E t \in Threads : StartPopenFails(t)
    \/ \E t \in Threads : Start147(t)
    \/ \E t \in Threads : Start148(t)
    \/ \E t \in Threads : Stop327(t)
    \/ \E t \in Threads : Stop333(t)
    \/ \E t \in Threads : Stop341(t)
    \/ \E t \in Threads : Stop342(t)
    \/ \E t \in Threads : SendWrite(t)
    \/ \E t \in Threads : SendRead(t)
    \/ \E t \in Threads : SendReadLate(t)
    \/ \E t \in Threads : ExecuteLock(t)
    \/ \E t \in Threads : ExecuteBusy(t)
    \/ \E t \in Threads : ExecuteNoResponse(t)
    \/ \E t \in Threads : ExecuteCountLoad(t)
    \/ \E t \in Threads : ExecuteCountStore(t)
    \/ \E t \in Threads : ExecuteIdle(t)
    \/ \E t \in Threads : ExecuteExcept(t)
    \/ \E t \in Threads : QueryReturn(t)

SpecKernel == InitKernel /\ [][NextKernel]_vars

----------------------------------------------------------------------------
(* The construction of the kernel manager: KernelManager(), that is __new__ *)
(* and then __init__ on what it returns, and get_kernel_manager(), called   *)
(* by threads before any manager exists.  An object is named after the      *)
(* thread that created it.                                                  *)

\* the ways a thread gets the manager, lines 103 and 534
Constructors == {"KernelManager", "get_kernel_manager"}

\* nothing constructed yet, no subprocess
InitSingleton ==
    /\ pc = "idle" /\ call = NoCall /\ ret = <<>> /\ exc = ""
    /\ entries = <<>> /\ config = <<>> /\ now = 0
    /\ fs = Tree({}, {}) /\ has_h5py = TRUE /\ h5data = <<>>
    /\ _instance = 0 /\ _lock = Free /\ _kernel_manager = 0
    /\ _initialized = "unset" /\ init_runs = 0
    /\ _process = NoProcess /\ _state = "unset" /\ _executions_count = 0
    /\ _exec_lock = Free /\ answered = 0
    /\ procs = <<>>
    /\ threads = [t \in Threads |-> IdleThread]

\* a thread asks for the manager
Construct(t, fn) ==
    /\ threads[t].pc \in {"idle", "raised"}
    /\ threads' = [threads EXCEPT ![t] =
          [IdleThread EXCEPT !.fn = fn,
                             !.pc = IF fn = "KernelManager" THEN "new_105"
                                    ELSE "get_kernel_manager_537"]]
    /\ UNCHANGED <<data_vars, class_vars, _process, _state, _executions_count,
                   _exec_lock, procs, answered>>

\* get_kernel_manager, lines 537 and 539: the global is read
GetKernelManager(t) ==
    LET rec == threads[t]
    IN  /\ rec.pc = "get_kernel_manager_537"
        /\ threads' = [threads EXCEPT ![t] =
              IF _kernel_manager # 0
              THEN [IdleThread EXCEPT !.obj = _kernel_manager]
              ELSE Enter(rec, "new_105", <<"get_kernel_manager_538">>)]
        /\ UNCHANGED <<data_vars, class_vars, _process, _state,
                       _executions_count, _exec_lock, procs, answered>>

\* get_kernel_manager, lines 538-539: the global is set
SetKernelManager(t) ==
    LET rec == threads[t]
    IN  /\ rec.pc = "get_kernel_manager_538"
        /\ _kernel_manager' = rec.obj
        /\ threads' = [threads EXCEPT ![t] = [IdleThread EXCEPT !.obj = rec.obj]]
        /\ UNCHANGED <<data_vars, _instance, _lock, _initialized, init_runs,
                       _process, _state, _executions_count, _exec_lock, procs,
                       answered>>

\* __new__, lines 105 and 110: cls._instance is read outside the lock
New105(t) ==
    LET rec == threads[t]
    IN  /\ rec.pc = "new_105"
        /\ threads' = [threads EXCEPT ![t] =
              IF _instance = 0 THEN [rec EXCEPT !.pc = "new_106"]
              ELSE [rec EXCEPT !.pc = "init_113", !.obj = _instance]]
        /\ UNCHANGED <<data_vars, class_vars, _process, _state,
                       _executions_count, _exec_lock, procs, answered>>

\* __new__, line 106: with cls._lock
New106(t) ==
    /\ threads[t].pc = "new_106"
    /\ _lock = Free
    /\ _lock' = t
    /\ threads' = [threads EXCEPT ![t].pc = "new_107"]
    /\ UNCHANGED <<data_vars, _instance, _kernel_manager, _initialized,
                   init_runs, _process, _state, _executions_count, _exec_lock,
                   procs, answered>>

\* __new__, lines 107 and 110: cls._instance is read again under the lock
New107(t) ==
    LET rec == threads[t]
    IN  /\ rec.pc = "new_107"
        /\ threads' = [threads EXCEPT ![t] =
              IF _instance = 0 THEN [rec EXCEPT !.pc = "new_108"]
              ELSE [rec EXCEPT !.pc = "init_113", !.obj = _instance]]
        /\ _lock' = IF _instance = 0 THEN _lock ELSE Free
        /\ UNCHANGED <<data_vars, _instance, _kernel_manager, _initialized,
                       init_runs, _process, _state, _executions_count,
                       _exec_lock, procs, answered>>

\* __new__, line 108: the object is created and stored in cls._instance
New108(t) ==
    /\ threads[t].pc = "new_108"
    /\ _instance' = t
    /\ threads' = [threads EXCEPT ![t].pc = "new_109"]
    /\ UNCHANGED <<data_vars, _lock, _kernel_manager, _initialized, init_runs,
                   _process, _state, _executions_count, _exec_lock, procs,
                   answered>>

\* __new__, lines 109-110: _initialized is set on the object, the lock is
\* given back and cls._instance returned
New109(t) ==
    /\ threads[t].pc = "new_109"
    /\ _initialized' = "False"
    /\ _lock' = Free
    /\ threads' = [threads EXCEPT ![t].pc = "init_113", ![t].obj = _instance]
    /\ UNCHANGED <<data_vars, _instance, _kernel_manager, init_runs, _process,
                   _state, _executions_count, _exec_lock, procs, answered>>

\* __init__, lines 113-114: an AttributeError while line 109 has not run
Init113(t) ==
    LET rec == threads[t]
    IN  /\ rec.pc = "init_113"
        /\ threads' = [threads EXCEPT ![t] =
              CASE _initialized = "unset" -> Raise(rec)
                [] _initialized = "True" -> Settle([rec EXCEPT !.pc = "init_125"])
                [] OTHER -> [rec EXCEPT !.pc = "init_116"]]
        /\ UNCHANGED <<data_vars, class_vars, _process, _state,
                       _executions_count, _exec_lock, procs, answered>>

\* __init__, line 116: the body of __init__ begins
Init116(t) ==
    /\ threads[t].pc = "init_116"
    /\ _initialized' = "True"
    /\ init_runs' = init_runs + 1
    /\ threads' = [threads EXCEPT ![t].pc = "init_117"]
    /\ UNCHANGED <<data_vars, _instance, _lock, _kernel_manager, _process,
                   _state, _executions_count, _exec_lock, procs, answered>>

\* __init__, line 117
Init117(t) ==
    /\ threads[t].pc = "init_117"
    /\ _process' = NoProcess
    /\ threads' = [threads EXCEPT ![t].pc = "init_118"]
    /\ UNCHANGED <<data_vars, class_vars, _state, _executions_count,
                   _exec_lock, procs, answered>>

\* __init__, lines 118-119
Init118(t) ==
    /\ threads[t].pc = "init_118"
    /\ _state' = "dead"
    /\ threads' = [threads EXCEPT ![t].pc = "init_120"]
    /\ UNCHANGED <<data_vars, class_vars, _process, _executions_count,
                   _exec_lock, procs, answered>>

\* __init__, lines 120-125: the counter, a new lock, and the call of start
Init120(t) ==
    LET rec == threads[t]
    IN  /\ rec.pc = "init_120"
        /\ _executions_count' = 0
        /\ answered' = 0
        /\ _exec_lock' = Free
        /\ threads' = [threads EXCEPT ![t] =
                          Enter(rec, "start_129", <<"init_125">>)]
        /\ UNCHANGED <<data_vars, class_vars, _process, _state, procs>>

NextSingleton ==
    \/ \E t \in Threads, fn \in Constructors : Construct(t, fn)
    \/ \E t \in Threads : GetKernelManager(t)
    \/ \E t \in Threads : SetKernelManager(t)
    \/ \E t \in Threads : New105(t)
    \/ \E t \in Threads : New106(t)
    \/ \E t \in Threads : New107(t)
    \/ \E t \in Threads : New108(t)
    \/ \E t \in Threads : New109(t)
    \/ \E t \in Threads : Init113(t)
    \/ \E t \in Threads : Init116(t)
    \/ \E t \in Threads : Init117(t)
    \/ \E t \in Threads : Init118(t)
    \/ \E t \in Threads : Init120(t)
    \/ \E t \in Threads : Start129(t)
    \/ \E t \in Threads : Start129Poll(t)
    \/ \E t \in Threads : Start132(t)
    \/ \E t \in Threads : StartPopen(t)
    \/ \E t \in Threads : StartPopenFails(t)
    \/ \E t \in Threads : Start147(t)
    \/ \E t \in Threads : Start148(t)

SpecSingleton == InitSingleton /\ [][NextSingleton]_vars

----------------------------------------------------------------------------
(* Requests served at the same time, each by a thread with a database       *)
(* session of its own (routes/entries.py): what they do to the              *)
(* NotebookConfig table.  NotebookConfig.get_config() is a SELECT and, when *)
(* it finds no row, an INSERT and a commit: two steps of a request.         *)

\* the endpoints whose handlers call NotebookConfig.get_config()
Endpoints == {"index", "setup_notebook", "create_header"}

\* request.form.get("ipts", "") of the setup requests
ConfigSetupArgs == {<<>>, <<"1">>, <<"2">>}

\* an empty database, the two experiment folders on disk
InitConfig ==
    /\ pc = "idle" /\ call = NoCall /\ ret = <<>> /\ exc = ""
    /\ entries = <<>> /\ config = <<>> /\ now = 0
    /\ fs = EntriesTree /\ has_h5py = TRUE /\ h5data = <<>>
    /\ _instance = 0 /\ _lock = Free /\ _kernel_manager = 0
    /\ _initialized = "unset" /\ init_runs = 0
    /\ _process = NoProcess /\ _state = "unset" /\ _executions_count = 0
    /\ _exec_lock = Free /\ answered = 0
    /\ procs = <<>>
    /\ threads = [t \in Threads |-> IdleThread]

\* a request arrives: index (line 33) and create_header (line 92) call
\* get_config at once, setup_notebook (lines 55-78) once the IPTS is accepted
Request(t, endpoint, ipts) ==
    LET ipts_str == Strip(Removed(Upper(Strip(ipts)), IptsPrefix))
        accepted == /\ Strip(ipts) # <<>>
                    /\ isdigit(ipts_str)
                    /\ Exists(<<IptsPrefix \o ipts_str>>)
    IN  /\ threads[t].pc = "idle"
        /\ endpoint # "setup_notebook" => ipts = <<>>
        /\ threads' = [threads EXCEPT ![t] =
              IF endpoint = "setup_notebook" /\ ~accepted THEN IdleThread
              ELSE [IdleThread EXCEPT !.fn = endpoint,
                                      !.arg = IptsPrefix \o ipts_str,
                                      !.pc = "get_config_105"]]
        /\ UNCHANGED <<data_vars, class_vars, _process, _state,
                       _executions_count, _exec_lock, procs, answered>>

\* the request goes on with the row get_config returned: setup_notebook to
\* lines 79-83; index renders and create_header, sent no run number, redirects
Served(rec) ==
    IF rec.fn = "setup_notebook" THEN [rec EXCEPT !.pc = "setup_notebook_79"]
    ELSE [IdleThread EXCEPT !.obj = rec.obj]

\* get_config, lines 105-106 and 110: cls.query.first()
GetConfigFirst(t) ==
    LET rec == threads[t]
    IN  /\ rec.pc = "get_config_105"
        /\ threads' = [threads EXCEPT ![t] =
              IF config = <<>> THEN [rec EXCEPT !.pc = "get_config_107"]
              ELSE Served([rec EXCEPT !.obj = 1])]
        /\ UNCHANGED <<data_vars, class_vars, _process, _state,
                       _executions_count, _exec_lock, procs, answered>>

\* get_config, lines 107-110: a new row is added and committed
GetConfigAdd(t) ==
    LET rec == threads[t]
    IN  /\ rec.pc = "get_config_107"
        /\ config' = Append(config, NewConfig)
        /\ threads' = [threads EXCEPT ![t] =
                          Served([rec EXCEPT !.obj = Len(config) + 1])]
        /\ UNCHANGED <<fs, has_h5py, h5data, pc, call, ret, exc, entries, now,
                       class_vars, _process, _state, _executions_count,
                       _exec_lock, procs, answered>>

\* setup_notebook, lines 79-86: the row get_config returned is updated
SetupCommit(t) ==
    LET rec == threads[t]
    IN  /\ rec.pc = "setup_notebook_79"
        /\ config' = [config EXCEPT ![rec.obj] =
                          [@ EXCEPT !.ipts = rec.arg, !.title = PyNone,
                                    !.updated_at = PyDatetime(now)]]
        /\ threads' = [threads EXCEPT ![t] = [IdleThread EXCEPT !.obj = rec.obj]]
        /\ UNCHANGED <<fs, has_h5py, h5data, pc, call, ret, exc, entries, now,
                       class_vars, _process, _state, _executions_count,
                       _exec_lock, procs, answered>>

NextConfig ==
    \/ \E t \in Threads, endpoint \in Endpoints, ipts \in ConfigSetupArgs :
          Request(t, endpoint, ipts)
    \/ \E t \in Threads : GetConfigFirst(t)
    \/ \E t \in Threads : GetConfigAdd(t)
    \/ \E t \in Threads : SetupCommit(t)

SpecConfig == InitConfig /\ [][NextConfig]_vars

----------------------------------------------------------------------------
(* Claims on the timeline.                                                  *)

\* C20: the index lists the entries in their order of creation: whenever
\* index has answered, an entry created before another comes before it in
\* the listing, whatever creations and edits went before.
C20_IndexInCreationOrder ==
    call.fn = "index" =>
        \A i, j \in 1..Len(ret) : i < j => ret[i] < ret[j]

\* a text of whitespace only, the empty text included
Blank(s) == \A i \in 1..Len(s) : s[i] \in Whitespace

\* t is s without its leading and its trailing whitespace
Trimmed(s, t) ==
    /\ t # <<>> => t[1] \notin Whitespace /\ t[Len(t)] \notin Whitespace
    /\ \E i \in 0..Len(s) :
          /\ i + Len(t) <= Len(s)
          /\ SubSeq(s, i + 1, i + Len(t)) = t
          /\ Blank(SubSeq(s, 1, i))
          /\ Blank(SubSeq(s, i + Len(t) + 1, Len(s)))

\* the last row of the table after a step
Added == entries'[Len(entries')]

\* C21: a create-text request with an empty or whitespace-only body leaves
\* the stored entries as they are; one with a non-blank body adds exactly
\* one entry, of type text, whose body is the body without its surrounding
\* whitespace and whose title is null when no title was given.
C21_CreateTextEffect ==
    [][\A body \in BodyArgs, title \in TitleArgs :
          CreateTextRequest(body, title) =>
              IF Blank(body) THEN entries' = entries
              ELSE /\ Len(entries') = Len(entries) + 1
                   /\ SubSeq(entries', 1, Len(entries)) = entries
                   /\ Added.type = "text"
                   /\ Added.body.t = "str" /\ Trimmed(body, Added.body.v.lit)
                   /\ title = <<>> => Added.title.t = "None"]_vars

\* a text entry made from the body " b" without a title: it holds "b" and
\* has no title
C21_Witness ==
    /\ call.fn = "create_text"
    /\ Len(entries) = 1
    /\ entries[1].type = "text"
    /\ entries[1].body.v.lit = <<"b">>
    /\ entries[1].title.t = "None"

\* C22: a header entry is never editable: an edit request for an entry of
\* type header, GET or POST and whatever the form holds, is answered with
\* the redirect to the index and leaves the entry's title, body and
\* edited_at as they were.
C22_HeaderNotEditable ==
    [][\A entry_id \in 1..Len(entries), method \in Methods, body \in EditBodyArgs,
          title \in TitleArgs :
          (entries[entry_id].type = "header"
              /\ EditRequest(entry_id, method, body, title)) =>
              /\ ret' = <<"redirect", "entries.index">>
              /\ Len(entries') = Len(entries)
              /\ entries'[entry_id].title = entries[entry_id].title
              /\ entries'[entry_id].body = entries[entry_id].body
              /\ entries'[entry_id].edited_at = entries[entry_id].edited_at]_vars

\* an edit request for a header entry has been answered
C22_Witness ==
    /\ call.fn = "edit"
    /\ call.entry_id \in 1..Len(entries)
    /\ entries[call.entry_id].type = "header"
    /\ ret = <<"redirect", "entries.index">>

\* the header entries of a table
Headers(table) == {i \in 1..Len(table) : table[i].type = "header"}

\* a text that is an integer in decimal digits, whitespace around it aside
IntegerText(s) ==
    \E t \in {SubSeq(s, i, j) : i, j \in 1..Len(s)} :
        /\ Trimmed(s, t)
        /\ t # <<>>
        /\ \A k \in 1..Len(t) : t[k] \in Digits

\* the run the text names
RunNamed(s) == DecimalValue(SelectSeq(s, LAMBDA c : c \in Digits))

\* the configured experiment, none before the first configuration
ConfiguredIpts == IF config = <<>> THEN NoIpts ELSE config[1].ipts

\* C23: a create-header request whose run number is empty, is no integer,
\* or names a run whose metadata lookup returns an error, is answered with
\* a redirect, raises nothing and leaves the header entries as they are;
\* and whenever a header entry is added, the run number was an integer, the
\* lookup returned a record without error, and the entry holds that record.
C23_HeaderOnlyFromResolvedRun ==
    [][\A run_number_str \in RunNumberArgs, located \in Locations :
          (call'.fn = "create_header" /\ CreateHeaderRequest(run_number_str, located)) =>
              /\ (\/ Blank(run_number_str)
                  \/ ~IntegerText(run_number_str)
                  \/ get_run_metadata(RunNamed(run_number_str), ConfiguredIpts,
                                      located).error.t # "None")
                    => /\ ret'[1] = "redirect" /\ exc' = "" /\ pc' = "idle"
                       /\ Headers(entries') = Headers(entries)
                       /\ entries' = entries
              /\ Headers(entries') # Headers(entries)
                    => /\ IntegerText(run_number_str)
                       /\ Len(entries') = Len(entries) + 1
                       /\ Added.type = "header"
                       /\ Added.body.v.dumps =
                             get_run_metadata(RunNamed(run_number_str), ConfiguredIpts, located)
                       /\ Added.body.v.dumps.error.t = "None"]_vars

\* with the experiment configured, a create-header request was turned
\* down and the table holds no header entry
C23_Witness ==
    /\ call.fn = "create_header"
    /\ config # <<>> /\ config[1].ipts = IPTS
    /\ ret = <<"redirect", "entries.index?tab=header">>
    /\ Headers(entries) = {}

\* an edit request that is applied: a POST with a non-blank body for an
\* entry that is no header
Applied(entry_id, method, body) ==
    entries[entry_id].type # "header" /\ method = "POST" /\ ~Blank(body)

\* the rows that are in the table before and after a step
Kept == 1..Min(Len(entries), Len(entries'))

\* what a step does to the edited_at of the entries, which is what decides
\* is_edited: an applied edit sets it; an edit that is not applied, and
\* every other request, leaves it as it is on the rows that stay; a row
\* that is added has none
EditedAtFollowsEdits ==
    /\ \A entry_id \in 1..Len(entries), method \in Methods, body \in EditBodyArgs,
          title \in TitleArgs :
          EditRequest(entry_id, method, body, title) =>
              /\ Len(entries') = Len(entries)
              /\ \A i \in 1..Len(entries) : i # entry_id => entries'[i] = entries[i]
              /\ IF Applied(entry_id, method, body)
                 THEN is_edited(entries'[entry_id])
                 ELSE entries'[entry_id] = entries[entry_id]
    /\ ~Edit => \A i \in Kept : entries'[i] = entries[i]
    /\ Len(entries') > Len(entries) => ~is_edited(Added)

\* C24 as stated: is_edited is true exactly of the entries an edit POST
\* with a non-blank body was applied to, and an applied edit leaves in
\* title and body the values that were submitted.
C24_SubmittedValuesStored ==
    [][/\ EditedAtFollowsEdits
       /\ \A entry_id \in 1..Len(entries), method \in Methods, body \in EditBodyArgs,
             title \in TitleArgs :
             (EditRequest(entry_id, method, body, title)
                 /\ Applied(entry_id, method, body)) =>
                 /\ entries'[entry_id].body.v.lit = body
                 /\ entries'[entry_id].title.t = "str"
                 /\ entries'[entry_id].title.v.lit = title]_vars

\* C24, amended: is_edited is true exactly of the entries an edit POST with
\* a non-blank body was applied to (edited_at is null on a new entry, is
\* set by an applied edit and is touched by nothing else), and an applied
\* edit leaves in body the submitted body without its surrounding
\* whitespace and in title the submitted title without its surrounding
\* whitespace, or null when that is empty.
C24_EditedIffEdited ==
    [][/\ EditedAtFollowsEdits
       /\ \A entry_id \in 1..Len(entries), method \in Methods, body \in EditBodyArgs,
             title \in TitleArgs :
             (EditRequest(entry_id, method, body, title)
                 /\ Applied(entry_id, method, body)) =>
                 /\ Trimmed(body, entries'[entry_id].body.v.lit)
                 /\ IF Blank(title) THEN entries'[entry_id].title.t = "None"
                    ELSE /\ entries'[entry_id].title.t = "str"
                         /\ Trimmed(title, entries'[entry_id].title.v.lit)]_vars

\* an edit with the body "a " was applied: the entry is marked as edited
\* and holds "a"
C24_Witness ==
    /\ call.fn = "edit"
    /\ call.entry_id \in 1..Len(entries)
    /\ entries[call.entry_id].type = "text"
    /\ is_edited(entries[call.entry_id])
    /\ entries[call.entry_id].body.v.lit = <<"a">>

----------------------------------------------------------------------------
(* Claims on the discovery calls as functions of the tree.                  *)

\* the result the walk of the call in flight gives when the directories
\* are listed in the given order
WalkResult(order) ==
    ReducedRunsWalk(StateRoot(IPTS, call.state_id, call.lite), call.state_id,
                    call.latest_only, order)

\* C25: a discovery call changes nothing in the tree, and its result is a
\* function of the tree and the arguments alone: whatever a walk or a
\* listing returns, it would have returned under every other order in
\* which the directories can be enumerated, so that two calls with equal
\* arguments on an unchanged tree return equal sequences.
C25_ResultIndependentOfListingOrder ==
    [][/\ (fs' # fs \/ h5data' # h5data) => Vanish
       /\ WalkReducedRuns =>
             \A order \in WalkOrders({StateRoot(IPTS, call.state_id, call.lite)}) :
                 /\ WalkResult(order).exc = exc'
                 /\ WalkResult(order).val = ret'
       /\ ListStateIds =>
             \A rank \in Rankings(EntryNames(SnapredRoot)) :
                 /\ StateIdsListing(IPTS, rank).exc = exc'
                 /\ StateIdsListing(IPTS, rank).val = ret']_vars

----------------------------------------------------------------------------
(* Claims on the kernel manager.                                            *)

\* an execute call of thread t is in flight
Executing(t) == threads[t].fn = "execute" /\ threads[t].pc # "raised"

C27_OwnResponse ==
    \A t \in DOMAIN threads :
        threads[t].result # NoResponse => threads[t].result.caller = t

\* the objects the callers that have returned were given
Obtained ==
    {threads[t].obj : t \in {u \in DOMAIN threads : threads[u].pc = "idle"}} \ {0}

\* C28: under every interleaving of first calls to KernelManager() and
\* get_kernel_manager(), all callers get the same instance, the body of
\* __init__ runs exactly once and exactly one subprocess is started.
C28_Singleton ==
    /\ Cardinality(Obtained) <= 1
    /\ init_runs <= 1
    /\ Len(procs) <= 1
    /\ Obtained # {} => init_runs = 1

\* C29: the executions_count get_status reports is the number of execute
\* calls answered since the last start that launched a subprocess.
C29_CountOfAnsweredExecutes == get_status.executions_count = answered

----------------------------------------------------------------------------
(* Claims on the notebook configuration.                                    *)

\* C30: whatever requests call NotebookConfig.get_config, one after another
\* or at the same time, the NotebookConfig table holds exactly one row and
\* every get_config call returns that row.
C30_ConfigSingleton ==
    /\ Len(config) <= 1
    /\ \A t \in DOMAIN threads :
          threads[t].obj # 0 => Len(config) = 1 /\ threads[t].obj = 1

====
